---- MODULE Spec2Model ----
(***************************************************************************)
(* A model of the SQL semantic analyzer and DDL executor of                *)
(* Parser/ParserNode.cpp.                                                  *)
(*                                                                         *)
(* The analyzed query (Analyzer::Query) and the catalog are the state.     *)
(* A statement's analysis is a run of the clause analyzers in the order    *)
(* QuerySpec::analyze calls them; each clause analyzer is one action and   *)
(* draws the clause of the parse tree it consumes.  An exception ends the  *)
(* run in pc = "error" and leaves the query as the throwing code left it.  *)
(***************************************************************************)
EXTENDS Integers, Sequences, FiniteSets, TLC

VARIABLES
  pc,        \* position of the running analysis
  stmt,      \* the parse tree consumed so far, clause by clause
  query,     \* the Analyzer::Query being written
  checked,   \* target-list positions on which check_group_by has been called
  log,       \* the clause analyzers that have run, in order
  err,       \* the message of the exception that ended the run, or NoError
  catalog,   \* the tables and views of the current database
  syscat,    \* the session's database, the users and databases, the calls made
  ddl,       \* the last table or view statement executed, its error and its calls
  ex         \* the last expression analysis: inputs, node heap and result

vars == <<pc, stmt, query, checked, log, err, catalog, syscat, ddl, ex>>

(***************************************************************************)
(* Bounds of the model.                                                    *)
(***************************************************************************)
MaxFrom == 2      \* table references in a FROM clause
MaxSel == 2       \* entries of a SELECT list
MaxVals == 2      \* values of an INSERT ... VALUES list

(***************************************************************************)
(* Null pointers and error messages.                                       *)
(***************************************************************************)
NoName == "<nullptr>"
NoExpr == [node |-> "nullptr"]
NoPExpr == [kind |-> "nullptr"]
NoError == "none"

ErrInvalidStar     == "invalid column name *."
ErrNoRangeVar      == "range variable or table name does not exist."
ErrNoColumn        == "Column name does not exist."
ErrAmbiguous       == "Column name is ambiguous."
ErrInvalidFunction == "invalid function name"
ErrNoTable         == "Table does not exist."
ErrViewNotSupp     == "Non-materialized view is not supported yet."
ErrInsertView      == "Insert to views is not supported yet."
ErrInsertNoColumn  == "Column does not exist."
ErrWhereNotBool    == "Only boolean expressions can be in WHERE clause."
ErrHavingNotBool   == "Only boolean expressions can be in HAVING clause."
ErrOrderByName     == "invalid name in order by"
ErrStarRangeVar    == "invalid range variable name"
ErrGroupBy         == "expression must be in GROUP BY or an aggregate"
ErrTypes           == "incompatible operand types"
ErrCrash           == "undefined behaviour: invalid memory access"
ErrAssert          == "assert (cd != nullptr) failed"

(***************************************************************************)
(* SQL types.                                                              *)
(***************************************************************************)
TI(t, d, s, n) == [type |-> t, dimension |-> d, scale |-> s, notnull |-> n]

IS_STRING(t) == t \in {"CHAR", "VARCHAR", "TEXT"}

IS_NUMBER(t) == t \in {"SMALLINT", "INT", "BIGINT", "FLOAT", "DOUBLE", "NUMERIC", "DECIMAL"}

IntRank(t) == CASE t = "SMALLINT" -> 1 [] t = "INT" -> 2 [] t = "BIGINT" -> 3 [] OTHER -> 0

IntDigits(t) == CASE t = "SMALLINT" -> 5 [] t = "INT" -> 10 [] t = "BIGINT" -> 19 [] OTHER -> 0

Max(a, b) == IF a >= b THEN a ELSE b

\* Digits before the decimal point that a numeric type needs.
WholeDigits(ti) ==
  IF ti.type \in {"NUMERIC", "DECIMAL"} THEN ti.dimension - ti.scale ELSE IntDigits(ti.type)

common_numeric_type(l, r) ==
  LET nn == l.notnull /\ r.notnull IN
  IF l.type = "DOUBLE" \/ r.type = "DOUBLE" THEN TI("DOUBLE", 0, 0, nn)
  ELSE IF l.type = "FLOAT" \/ r.type = "FLOAT" THEN TI("FLOAT", 0, 0, nn)
  ELSE IF l.type \in {"NUMERIC", "DECIMAL"} \/ r.type \in {"NUMERIC", "DECIMAL"}
       THEN LET sc == Max(l.scale, r.scale) IN
            TI("NUMERIC", Max(WholeDigits(l), WholeDigits(r)) + sc, sc, nn)
  ELSE IF IntRank(l.type) >= IntRank(r.type) THEN TI(l.type, 0, 0, nn)
  ELSE TI(r.type, 0, 0, nn)

StrRank(t) == CASE t = "CHAR" -> 1 [] t = "VARCHAR" -> 2 [] t = "TEXT" -> 3 [] OTHER -> 0

common_string_type(l, r) ==
  TI(IF StrRank(l.type) >= StrRank(r.type) THEN l.type ELSE r.type,
     Max(l.dimension, r.dimension), 0, l.notnull /\ r.notnull)

ComparisonOps == {"=", "<>", "<", ">", "<=", ">="}
ArithmeticOps == {"+", "-", "*", "/"}
LogicalOps == {"AND", "OR"}

\* BinOper::analyze_type_info: the result type and the types the operands are
\* coerced to, or an error when the operand types do not fit the operator.
analyze_type_info(op, l, r) ==
  LET ok(res, nl, nr) == [err |-> NoError, result_type |-> res,
                          new_left_type |-> nl, new_right_type |-> nr]
      bad == [err |-> ErrTypes, result_type |-> l, new_left_type |-> l, new_right_type |-> r]
      bool == TI("BOOLEAN", 0, 0, FALSE)
  IN
  IF op \in LogicalOps
  THEN IF l.type = "BOOLEAN" /\ r.type = "BOOLEAN" THEN ok(bool, l, r) ELSE bad
  ELSE IF IS_NUMBER(l.type) /\ IS_NUMBER(r.type)
  THEN LET c == common_numeric_type(l, r) IN
       IF op \in ComparisonOps THEN ok(bool, c, c) ELSE ok(c, c, c)
  ELSE IF IS_STRING(l.type) /\ IS_STRING(r.type) /\ op \in ComparisonOps
  THEN LET c == common_string_type(l, r) IN ok(bool, c, c)
  ELSE bad

(***************************************************************************)
(* Analyzed expressions, as values (Analyzer::Expr and its subclasses).    *)
(***************************************************************************)
Constant(ti, is_null, v) == [node |-> "Constant", type |-> ti, is_null |-> is_null, constval |-> v]

ColumnVar(ti, table_id, column_id, rte_idx) ==
  [node |-> "ColumnVar", type |-> ti, table_id |-> table_id, column_id |-> column_id,
   rte_idx |-> rte_idx]

UOper(ti, op, operand) == [node |-> "UOper", type |-> ti, optype |-> op, operand |-> operand]

BinOper(ti, op, qual, left, right) ==
  [node |-> "BinOper", type |-> ti, optype |-> op, qualifier |-> qual, left |-> left,
   right |-> right]

AggExpr(ti, agg, arg, is_distinct) ==
  [node |-> "AggExpr", type |-> ti, aggtype |-> agg, arg |-> arg, is_distinct |-> is_distinct]

\* Expr::add_cast and Constant::add_cast: nothing to do for the same type; a
\* Constant is retyped in place where the value can be represented (a NULL, a
\* number to a number type, a string to a string type); anything else is
\* wrapped in a CAST.
add_cast(e, ti) ==
  IF e.node = "Constant" /\ (e.is_null \/ (IS_NUMBER(e.type.type) /\ IS_NUMBER(ti.type))
                                        \/ (IS_STRING(e.type.type) /\ IS_STRING(ti.type)))
  THEN [e EXCEPT !.type = ti]
  ELSE IF e.type = ti THEN e
  ELSE UOper(ti, "CAST", e)

(***************************************************************************)
(* The catalog.                                                            *)
(***************************************************************************)
Column(name, id, ti) == [columnName |-> name, columnId |-> id, columnType |-> ti]

NullCD == Column(NoName, -1, TI("NULLT", 0, 0, FALSE))
NullTD == [tableName |-> NoName, tableId |-> -1, isView |-> FALSE, isMaterialized |-> FALSE,
           columns |-> <<>>]

\* r(a INT, b BIGINT), s(a INT, c VARCHAR(8)) and the non-materialized view v.
InitCatalog ==
  { [tableName |-> "r", tableId |-> 1, isView |-> FALSE, isMaterialized |-> FALSE,
     columns |-> << Column("a", 1, TI("INT", 0, 0, FALSE)),
                    Column("b", 2, TI("BIGINT", 0, 0, FALSE)) >>],
    [tableName |-> "s", tableId |-> 2, isView |-> FALSE, isMaterialized |-> FALSE,
     columns |-> << Column("a", 1, TI("INT", 0, 0, FALSE)),
                    Column("c", 2, TI("VARCHAR", 8, 0, FALSE)) >>],
    [tableName |-> "v", tableId |-> 3, isView |-> TRUE, isMaterialized |-> FALSE,
     columns |-> << Column("a", 1, TI("INT", 0, 0, FALSE)) >>] }

getMetadataForTable(name) ==
  IF \E td \in catalog : td.tableName = name
  THEN CHOOSE td \in catalog : td.tableName = name
  ELSE NullTD

getMetadataForTableId(id) ==
  IF \E td \in catalog : td.tableId = id
  THEN CHOOSE td \in catalog : td.tableId = id
  ELSE NullTD

getAllColumnMetadataForTable(id) == getMetadataForTableId(id).columns

getMetadataForColumn(id, name) ==
  LET cols == getAllColumnMetadataForTable(id) IN
  IF \E i \in 1..Len(cols) : cols[i].columnName = name
  THEN cols[CHOOSE i \in 1..Len(cols) : cols[i].columnName = name]
  ELSE NullCD

getMetadataForColumnId(id, colId) ==
  LET cols == getAllColumnMetadataForTable(id) IN
  IF \E i \in 1..Len(cols) : cols[i].columnId = colId
  THEN cols[CHOOSE i \in 1..Len(cols) : cols[i].columnId = colId]
  ELSE NullCD

(***************************************************************************)
(* The analyzed query.                                                     *)
(***************************************************************************)
RangeTblEntry(range_var, td) == [range_var |-> range_var, table_id |-> td.tableId]

TargetEntry(resname, e) == [resname |-> resname, expr |-> e]

NullList == [null |-> TRUE, list |-> <<>>]
List(s) == [null |-> FALSE, list |-> s]

\* nullptr as a Query* (Query::next_query of a query that is not a union).
NullQuery == [null |-> TRUE]

\* Analyzer::Query as its constructor leaves it.
NewQuery ==
  [stmt_type |-> "kSELECT", is_distinct |-> FALSE, rangetable |-> <<>>, targetlist |-> <<>>,
   where_predicate |-> NoExpr, group_by |-> NullList, having_predicate |-> NoExpr,
   order_by |-> NullList, num_aggs |-> 0, limit |-> 0, offset |-> 0,
   result_table_id |-> -1, result_col_list |-> <<>>,
   next_query |-> NullQuery, is_unionall |-> FALSE]

\* Query::get_rte_idx: the 0-based position of the entry named name, or -1.
get_rte_idx(q, name) ==
  IF \E i \in 1..Len(q.rangetable) : q.rangetable[i].range_var = name
  THEN (CHOOSE i \in 1..Len(q.rangetable) :
          /\ q.rangetable[i].range_var = name
          /\ \A j \in 1..(i-1) : q.rangetable[j].range_var # name) - 1
  ELSE -1

\* RangeTblEntry::get_column_desc
get_column_desc(rte, name) == getMetadataForColumn(rte.table_id, name)

RECURSIVE ExpandStar(_, _, _)
\* RangeTblEntry::expand_star_in_targetlist: one target per column of the
\* entry's table, in catalog order, named after the column.
ExpandStar(cols, table_id, rte_idx) ==
  IF cols = <<>> THEN <<>>
  ELSE << TargetEntry(Head(cols).columnName,
                      ColumnVar(Head(cols).columnType, table_id, Head(cols).columnId, rte_idx)) >>
       \o ExpandStar(Tail(cols), table_id, rte_idx)

expand_star_in_targetlist(rte, rte_idx) ==
  ExpandStar(getAllColumnMetadataForTable(rte.table_id), rte.table_id, rte_idx)

(***************************************************************************)
(* Parse trees (Parser::Expr and its subclasses).                          *)
(***************************************************************************)
ColumnRef(table, column) == [kind |-> "ColumnRef", table |-> table, column |-> column]

IntLiteral(v) == [kind |-> "IntLiteral", intval |-> v]

NullLiteral == [kind |-> "NullLiteral"]

FunctionRef(name, distinct, arg) ==
  [kind |-> "FunctionRef", name |-> name, distinct |-> distinct, arg |-> arg]

OperExpr(op, left, right) == [kind |-> "OperExpr", optype |-> op, left |-> left, right |-> right]

\* boost::iequals on the function names, option names and option values the
\* model draws.
ToLower(s) ==
  CASE s = "SUM" -> "sum" [] s = "COUNT" -> "count" [] s = "MIN" -> "min"
    [] s = "MAX" -> "max" [] s = "AVG" -> "avg"
    [] s = "PASSWORD" -> "password" [] s = "Is_Super" -> "is_super"
    [] s = "OWNER" -> "owner" [] s = "TRUE" -> "true" [] s = "False" -> "false"
    [] s = "FIXED" -> "fixed" [] s = "Sparse" -> "sparse" [] s = "RL" -> "rl"
    [] s = "FRAGMENT_SIZE" -> "fragment_size" [] s = "Page_Size" -> "page_size"
    [] s = "STORAGE" -> "storage" [] s = "Refresh" -> "refresh" [] s = "GPU" -> "gpu"
    [] s = "Immediate" -> "immediate"
    [] OTHER -> s

iequals(a, b) == ToLower(a) = ToLower(b)

(***************************************************************************)
(* Expression analysis.  An analysis yields a set of outcomes: one outcome *)
(* where the code is deterministic, several where it reads a local it      *)
(* never initialized.  An outcome carries the error thrown (or NoError),   *)
(* the analyzed expression and query.num_aggs as the analysis left it.     *)
(***************************************************************************)
Out(e, n) == [err |-> NoError, expr |-> e, num_aggs |-> n]
Throw(msg, n) == [err |-> msg, expr |-> NoExpr, num_aggs |-> n]

\* A 64-bit integer as two limbs: the value hi * 2^16 + lo, with 0 <= lo < 2^16.
I64(hi, lo) == [hi |-> hi, lo |-> lo]

LE64(a, b) == a.hi < b.hi \/ (a.hi = b.hi /\ a.lo <= b.lo)

INT16_MIN == I64(-1, 32768)        \* -32768
INT16_MAX == I64(0, 32767)         \*  32767
INT32_MIN == I64(-32768, 0)        \* -2147483648
INT32_MAX == I64(32767, 65535)     \*  2147483647

NullLiteral_analyze == Constant(TI("NULLT", 0, 0, FALSE), TRUE, I64(0, 0))

\* (int16_t)intval and (int32_t)intval: the low 16 or 32 bits, sign-extended.
Narrow16(v) == I64(IF v.lo >= 32768 THEN -1 ELSE 0, v.lo)

Narrow32(v) ==
  LET h == v.hi % 65536 IN I64(IF h >= 32768 THEN h - 65536 ELSE h, v.lo)

\* IntLiteral::analyze with the SMALLINT range taken one value too wide.
IntLiteral_analyze_Wide(intval) ==
  IF LE64(INT16_MIN, intval) /\ LE64(intval, I64(0, 32768))
  THEN Constant(TI("SMALLINT", 0, 0, FALSE), FALSE, Narrow16(intval))
  ELSE IF LE64(INT32_MIN, intval) /\ LE64(intval, INT32_MAX)
  THEN Constant(TI("INT", 0, 0, FALSE), FALSE, Narrow32(intval))
  ELSE Constant(TI("BIGINT", 0, 0, FALSE), FALSE, intval)

IntLiteral_analyze(intval) ==
  IF LE64(INT16_MIN, intval) /\ LE64(intval, INT16_MAX)
  THEN Constant(TI("SMALLINT", 0, 0, FALSE), FALSE, Narrow16(intval))
  ELSE IF LE64(INT32_MIN, intval) /\ LE64(intval, INT32_MAX)
  THEN Constant(TI("INT", 0, 0, FALSE), FALSE, Narrow32(intval))
  ELSE Constant(TI("BIGINT", 0, 0, FALSE), FALSE, intval)

\* What an uninitialized int or descriptor pointer may hold: any value; a wild
\* pointer reads as garbage or faults.
GarbageInts == {-1, 7}
WildCD == Column("<garbage>", 7, TI("NULLT", 0, 0, FALSE))
UninitLocals ==
  { [found |-> FALSE, ambiguous |-> FALSE, rte_idx |-> i, table_id |-> t, cd |-> c] :
      i \in GarbageInts, t \in GarbageInts, c \in {NullCD, WildCD} }

RECURSIVE ColumnRefLoop(_, _, _, _)
\* The loop of ColumnRef::analyze over the range table, from entry i on (1-based
\* here, so the code's i is i - 1).  cd is overwritten by every entry.
ColumnRefLoop(rt, column, i, st) ==
  IF i > Len(rt) THEN st
  ELSE LET cd == get_column_desc(rt[i], column) IN
       IF cd # NullCD /\ ~st.found
       THEN ColumnRefLoop(rt, column, i + 1,
              [st EXCEPT !.found = TRUE, !.rte_idx = i - 1, !.table_id = rt[i].table_id,
                         !.cd = cd])
       ELSE IF cd # NullCD /\ st.found
       THEN [st EXCEPT !.ambiguous = TRUE, !.cd = cd]
       ELSE ColumnRefLoop(rt, column, i + 1, [st EXCEPT !.cd = cd])

ColumnRef_analyze(cr, q) ==
  LET n == q.num_aggs IN
  IF cr.column = NoName THEN {Throw(ErrInvalidStar, n)}
  ELSE IF cr.table # NoName
  THEN LET rte_idx == get_rte_idx(q, cr.table) IN
       IF rte_idx < 0 THEN {Throw(ErrNoRangeVar, n)}
       ELSE LET rte == q.rangetable[rte_idx + 1]
                cd == get_column_desc(rte, cr.column)
            IN IF cd = NullCD THEN {Throw(ErrNoColumn, n)}
               ELSE {Out(ColumnVar(cd.columnType, rte.table_id, cd.columnId, rte_idx), n)}
  ELSE UNION {
         LET st == ColumnRefLoop(q.rangetable, cr.column, 1, st0) IN
         IF st.ambiguous THEN {Throw(ErrAmbiguous, n)}
         ELSE IF st.cd = NullCD THEN {Throw(ErrNoColumn, n)}
         ELSE IF st.cd = WildCD
         THEN {Throw(ErrCrash, n),
               Out(ColumnVar(st.cd.columnType, st.table_id, st.cd.columnId, st.rte_idx), n)}
         ELSE {Out(ColumnVar(st.cd.columnType, st.table_id, st.cd.columnId, st.rte_idx), n)}
         : st0 \in UninitLocals }

(***************************************************************************)
(* Decimal strings and 64-bit values.  A string is a sequence of           *)
(* characters; a natural number is the sequence of its decimal digits,     *)
(* most significant first and without leading zeros; an int64_t is a sign  *)
(* and a magnitude.                                                        *)
(***************************************************************************)
ErrStoll == "std::invalid_argument or std::out_of_range thrown by std::stoll"
ErrAssertFixedPt == "assert (fixedptval->length() <= 20) or assert (dot != npos) failed"
ErrOverflow == "undefined behaviour: signed integer overflow trapped"

npos == -1

\* std::string::find_first_of(c, 0), 0-based.
find_first_of(s, c) ==
  IF \E i \in 1..Len(s) : s[i] = c
  THEN (CHOOSE i \in 1..Len(s) : s[i] = c /\ \A j \in 1..(i - 1) : s[j] # c) - 1
  ELSE npos

\* std::string::substr(pos) and substr(pos, n), 0-based.
substr(s, pos, n) == SubSeq(s, pos + 1, pos + n)

substr_from(s, pos) == SubSeq(s, pos + 1, Len(s))

DigitOf(c) ==
  CASE c = "0" -> 0 [] c = "1" -> 1 [] c = "2" -> 2 [] c = "3" -> 3 [] c = "4" -> 4
    [] c = "5" -> 5 [] c = "6" -> 6 [] c = "7" -> 7 [] c = "8" -> 8 [] c = "9" -> 9

RECURSIVE Norm(_)
Norm(d) == IF Len(d) > 1 /\ Head(d) = 0 THEN Norm(Tail(d)) ELSE d

LessEq(a, b) ==
  \/ Len(a) < Len(b)
  \/ /\ Len(a) = Len(b)
     /\ \/ a = b
        \/ \E i \in 1..Len(a) : a[i] < b[i] /\ \A j \in 1..(i - 1) : a[j] = b[j]

Pad(d, n) == [i \in 1..n |-> IF i <= n - Len(d) THEN 0 ELSE d[i - (n - Len(d))]]

RECURSIVE Carry(_, _, _)
\* The carry into digit i of a + b.
Carry(a, b, i) ==
  IF i = Len(a) THEN 0 ELSE (a[i + 1] + b[i + 1] + Carry(a, b, i + 1)) \div 10

Plus(x, y) ==
  LET n == (IF Len(x) > Len(y) THEN Len(x) ELSE Len(y)) + 1
      a == Pad(x, n)
      b == Pad(y, n)
  IN Norm([i \in 1..n |-> (a[i] + b[i] + Carry(a, b, i)) % 10])

RECURSIVE Borrow(_, _, _)
\* The borrow out of digit i of a - b.
Borrow(a, b, i) ==
  IF i = Len(a) THEN 0
  ELSE IF a[i + 1] - b[i + 1] - Borrow(a, b, i + 1) < 0 THEN 1 ELSE 0

\* x - y for x >= y.
Minus(x, y) ==
  LET a == x
      b == Pad(y, Len(x))
  IN Norm([i \in 1..Len(x) |-> (a[i] - b[i] - Borrow(a, b, i) + 10) % 10])

Times10(x) == IF x = <<0>> THEN x ELSE Append(x, 0)

INT64_MAX == <<9, 2, 2, 3, 3, 7, 2, 0, 3, 6, 8, 5, 4, 7, 7, 5, 8, 0, 7>>

TwoTo64 == <<1, 8, 4, 4, 6, 7, 4, 4, 0, 7, 3, 7, 0, 9, 5, 5, 1, 6, 1, 6>>

Int64(neg, mag) == [neg |-> neg, mag |-> mag]

\* std::stoll on a string of digits: [err, val].
stoll(str) ==
  IF str = <<>> THEN [err |-> ErrStoll, val |-> Int64(FALSE, <<0>>)]
  ELSE LET m == Norm([i \in 1..Len(str) |-> DigitOf(str[i])]) IN
       IF LessEq(m, INT64_MAX) THEN [err |-> NoError, val |-> Int64(FALSE, m)]
       ELSE [err |-> ErrStoll, val |-> Int64(FALSE, <<0>>)]

RECURSIVE Mod64(_)
Mod64(m) == IF LessEq(TwoTo64, m) THEN Mod64(Minus(m, TwoTo64)) ELSE m

\* The int64_t that holds the exact value m, or -m, modulo 2^64.
Wrap64(neg, m) ==
  LET r == Mod64(m)
      u == IF neg /\ r # <<0>> THEN Minus(TwoTo64, r) ELSE r
  IN IF LessEq(u, INT64_MAX) THEN Int64(FALSE, u) ELSE Int64(TRUE, Minus(TwoTo64, u))

\* A signed 64-bit result whose exact value does not fit: the behaviour is
\* undefined; the build wraps the value modulo 2^64 or traps.
SignedOverflow(neg, m) ==
  { [trap |-> TRUE, val |-> Int64(FALSE, <<0>>)], [trap |-> FALSE, val |-> Wrap64(neg, m)] }

NoOverflow(v) == { [trap |-> FALSE, val |-> v] }

\* d.bigintval *= 10: the outcomes.
TimesTen64(v) ==
  LET m == Times10(v.mag) IN
  IF LessEq(m, IF v.neg THEN Plus(INT64_MAX, <<1>>) ELSE INT64_MAX)
  THEN NoOverflow(Int64(v.neg, m))
  ELSE SignedOverflow(v.neg, m)

\* d.bigintval += fraction for a fraction that is not negative: the outcomes.
PlusFraction64(v, fraction) ==
  IF v.neg
  THEN IF LessEq(fraction, v.mag)
       THEN LET m == Minus(v.mag, fraction) IN NoOverflow(Int64(m # <<0>>, m))
       ELSE NoOverflow(Int64(FALSE, Minus(fraction, v.mag)))
  ELSE LET m == Plus(v.mag, fraction) IN
       IF LessEq(m, INT64_MAX) THEN NoOverflow(Int64(FALSE, m))
       ELSE SignedOverflow(FALSE, m)

FixedPtLiteral(s) == [kind |-> "FixedPtLiteral", fixedptval |-> s]

RECURSIVE ScaleLoop(_, _, _)
\* for (i = 0; i < ti.scale; i++) d.bigintval *= 10, from iteration i on.
ScaleLoop(o, i, scale) ==
  IF i >= scale \/ o.trap THEN {o}
  ELSE UNION { ScaleLoop(o1, i + 1, scale) : o1 \in TimesTen64(o.val) }

\* Lines 273-275: the integer part scaled, then the fraction added.
FixedPtValue(integer, fraction, scale) ==
  UNION { IF o.trap THEN {o} ELSE PlusFraction64(o.val, fraction.mag)
          : o \in ScaleLoop([trap |-> FALSE, val |-> integer], 0, scale) }

FixedPtLiteral_analyze(e, q) ==
  IF Len(e.fixedptval) > 20 THEN {Throw(ErrAssertFixedPt, q.num_aggs)}
  ELSE
  LET dot == find_first_of(e.fixedptval, ".") IN
  IF dot = npos THEN {Throw(ErrAssertFixedPt, q.num_aggs)}
  ELSE
  LET before_dot == substr(e.fixedptval, 0, dot)
      after_dot == substr_from(e.fixedptval, dot + 1)
      integer == stoll(before_dot)
  IN
  IF integer.err # NoError THEN {Throw(integer.err, q.num_aggs)}
  ELSE
  LET fraction == stoll(after_dot) IN
  IF fraction.err # NoError THEN {Throw(fraction.err, q.num_aggs)}
  ELSE
  LET scale == Len(after_dot)
      ti == TI("NUMERIC", Len(before_dot) + scale, scale, FALSE)
  IN { IF o.trap THEN Throw(ErrOverflow, q.num_aggs)
       ELSE Out(Constant(ti, FALSE, o.val), q.num_aggs)
       : o \in FixedPtValue(integer.val, fraction.val, scale) }

ErrUserLiteral == "USER literal not supported yet."
ErrSubquery == "Subqueries are not supported yet."
ErrUpdate == "UPDATE statement not supported yet."
ErrDelete == "DELETE statement not supported yet."

UserLiteral == [kind |-> "UserLiteral"]

SubqueryExpr(query_expr) == [kind |-> "SubqueryExpr", query |-> query_expr]

ExistsExpr(query_expr) == [kind |-> "ExistsExpr", query |-> query_expr]

InSubquery(is_not, arg, subquery) ==
  [kind |-> "InSubquery", is_not |-> is_not, arg |-> arg, subquery |-> subquery]

\* A subquery analyzed to a NULL constant instead of throwing.
SubqueryExpr_analyze_Null(e, q) == {Out(NullLiteral_analyze, q.num_aggs)}

UserLiteral_analyze(e, q) == {Throw(ErrUserLiteral, q.num_aggs)}

SubqueryExpr_analyze(e, q) == {Throw(ErrSubquery, q.num_aggs)}

InSubquery_analyze(e, q) == {Throw(ErrSubquery, q.num_aggs)}

ExistsExpr_analyze(e, q) == {Throw(ErrSubquery, q.num_aggs)}

RECURSIVE Expr_analyze(_, _)
RECURSIVE FunctionRef_analyze(_, _)
RECURSIVE OperExpr_analyze(_, _)

\* Expr::analyze, dispatched on the class of the parse node.
Expr_analyze(e, q) ==
  CASE e.kind = "ColumnRef" -> ColumnRef_analyze(e, q)
    [] e.kind = "IntLiteral" -> {Out(IntLiteral_analyze(e.intval), q.num_aggs)}
    [] e.kind = "NullLiteral" -> {Out(NullLiteral_analyze, q.num_aggs)}
    [] e.kind = "FunctionRef" -> FunctionRef_analyze(e, q)
    [] e.kind = "OperExpr" -> OperExpr_analyze(e, q)
    [] e.kind = "FixedPtLiteral" -> FixedPtLiteral_analyze(e, q)
    [] e.kind = "UserLiteral" -> UserLiteral_analyze(e, q)
    [] e.kind = "SubqueryExpr" -> SubqueryExpr_analyze(e, q)
    [] e.kind = "InSubquery" -> InSubquery_analyze(e, q)
    [] e.kind = "ExistsExpr" -> ExistsExpr_analyze(e, q)
    [] OTHER -> {Throw(ErrCrash, q.num_aggs)}

\* The argument of an aggregate: nullptr stays nullptr for COUNT(*); the other
\* aggregates dereference it.
AggArg(e, q, nullOk) ==
  IF e.arg = NoPExpr
  THEN IF nullOk THEN {Out(NoExpr, q.num_aggs)} ELSE {Throw(ErrCrash, q.num_aggs)}
  ELSE Expr_analyze(e.arg, q)

FunctionRef_analyze(e, q) ==
  LET agg == ToLower(e.name) IN
  IF agg \notin {"count", "min", "max", "avg", "sum"}
  THEN {Throw(ErrInvalidFunction, q.num_aggs)}
  ELSE { IF a.err # NoError THEN a
         ELSE Out(AggExpr(IF agg = "count" THEN [type |-> "BIGINT", dimension |-> 0,
                                                  scale |-> 0, notnull |-> FALSE]
                                           ELSE a.expr.type,
                          agg, a.expr, agg = "count" /\ e.distinct),
                  a.num_aggs + 1)
         : a \in AggArg(e, q, agg = "count") }

OperExpr_analyze(e, q) ==
  UNION {
    IF l.err # NoError THEN {l}
    ELSE IF e.right = NoPExpr THEN {Out(UOper(l.expr.type, e.optype, l.expr), l.num_aggs)}
    ELSE UNION {
      IF r.err # NoError THEN {r}
      ELSE LET t == analyze_type_info(e.optype, l.expr.type, r.expr.type) IN
           IF t.err # NoError THEN {Throw(t.err, r.num_aggs)}
           ELSE {Out(BinOper(t.result_type, e.optype, "kONE",
                             IF l.expr.type # t.new_left_type
                             THEN add_cast(l.expr, t.new_left_type) ELSE l.expr,
                             IF r.expr.type # t.new_right_type
                             THEN add_cast(r.expr, t.new_right_type) ELSE r.expr),
                     r.num_aggs)}
      : r \in Expr_analyze(e.right, [q EXCEPT !.num_aggs = l.num_aggs]) }
    : l \in Expr_analyze(e.left, q) }

(***************************************************************************)
(* Statements: the parse trees the model draws.                            *)
(***************************************************************************)
TableRef(name, range_var) == [table_name |-> name, range_var |-> range_var]

SelectEntry(e, alias) == [select_expr |-> e, alias |-> alias]

OrderSpec(colno, column) == [colno |-> colno, column |-> column, is_desc |-> FALSE,
                             nulls_first |-> FALSE]

SeqsUpTo(S, n) == UNION { [1..k -> S] : k \in 1..n }

\* r and s exist, v is a non-materialized view, x does not exist.
TableRefs == { TableRef(t, NoName) : t \in {"r", "s", "v", "x"} }

FromClauses == SeqsUpTo(TableRefs, MaxFrom)

SelectEntries ==
  { SelectEntry(ColumnRef(NoName, "a"), NoName),
    SelectEntry(ColumnRef(NoName, "b"), NoName),
    SelectEntry(ColumnRef(NoName, "c"), NoName),
    SelectEntry(ColumnRef("r", "a"), NoName),
    SelectEntry(ColumnRef("r", NoName), NoName),
    SelectEntry(FunctionRef("SUM", FALSE, ColumnRef(NoName, "b")), NoName),
    SelectEntry(FunctionRef("count", FALSE, NoPExpr), NoName),
    SelectEntry(IntLiteral(I64(0, 1)), "k") }

\* A null select_clause is SELECT *.
SelectClauses == {NullList} \cup { List(sc) : sc \in SeqsUpTo(SelectEntries, MaxSel) }

WhereClauses ==
  { NoPExpr,
    OperExpr(">", ColumnRef(NoName, "a"), IntLiteral(I64(0, 1))),
    OperExpr(">", FunctionRef("count", FALSE, NoPExpr), IntLiteral(I64(0, 1))),
    IntLiteral(I64(0, 1)) }

GroupByClauses == { NullList, List(<<ColumnRef(NoName, "a")>>) }

HavingClauses ==
  { NoPExpr,
    OperExpr(">", FunctionRef("sum", FALSE, ColumnRef(NoName, "b")), IntLiteral(I64(0, 1))),
    OperExpr(">", ColumnRef(NoName, "a"), IntLiteral(I64(0, 1))) }

OrderByClauses ==
  { NullList,
    List(<<OrderSpec(1, NoName)>>),
    List(<<OrderSpec(3, NoName)>>),
    List(<<OrderSpec(0, "a")>>),
    List(<<OrderSpec(0, "k"), OrderSpec(2, NoName)>>) }

InsertTables == {"r", "s", "v", "x"}

InsertColumnLists == { NullList, List(<<"a">>), List(<<"b", "a">>), List(<<"z">>) }

InsertValues == { IntLiteral(I64(0, 1)), NullLiteral, ColumnRef(NoName, "a") }

ValueLists == SeqsUpTo(InsertValues, MaxVals)

\* The statement before any of it has been read.
NewStmt ==
  [class |-> "none", is_distinct |-> FALSE, from_clause |-> <<>>, select_clause |-> NullList,
   where_clause |-> NoPExpr, groupby_clause |-> NullList, having_clause |-> NoPExpr,
   orderby_clause |-> NullList, table |-> NoName, column_list |-> NullList,
   value_list |-> <<>>]

(***************************************************************************)
(* The clause analyzers of QuerySpec, as functions of the query.  Each     *)
(* yields [err, q]: the exception thrown, if any, and the query as the     *)
(* code left it.                                                           *)
(***************************************************************************)
Ok(q) == [err |-> NoError, q |-> q]
Fail(msg, q) == [err |-> msg, q |-> q]

RECURSIVE analyze_from_clause(_, _)
analyze_from_clause(from_clause, q) ==
  IF from_clause = <<>> THEN Ok(q)
  ELSE LET p == Head(from_clause)
           table_desc == getMetadataForTable(p.table_name)
       IN IF table_desc = NullTD THEN Fail(ErrNoTable, q)
          ELSE IF table_desc.isView /\ ~table_desc.isMaterialized THEN Fail(ErrViewNotSupp, q)
          ELSE LET range_var == IF p.range_var = NoName THEN p.table_name ELSE p.range_var
               IN analyze_from_clause(Tail(from_clause),
                    [q EXCEPT !.rangetable = Append(@, RangeTblEntry(range_var, table_desc))])

RECURSIVE ExpandAll(_, _)
\* SELECT *: every range table entry from position i on is expanded in order.
ExpandAll(q, i) ==
  IF i > Len(q.rangetable) THEN <<>>
  ELSE expand_star_in_targetlist(q.rangetable[i], i - 1) \o ExpandAll(q, i + 1)

\* The result name of a select entry: its alias, else the column's name for a
\* plain column, else empty.
ResName(p, e) ==
  IF p.alias # NoName THEN p.alias
  ELSE IF e.node = "ColumnVar"
  THEN getMetadataForColumnId(e.table_id, e.column_id).columnName
  ELSE ""

RECURSIVE SelectLoop(_, _)
SelectLoop(select_clause, q) ==
  IF select_clause = <<>> THEN {Ok(q)}
  ELSE LET p == Head(select_clause)
           select_expr == p.select_expr
       IN IF select_expr.kind = "ColumnRef" /\ select_expr.column = NoName
          THEN LET rte_idx == get_rte_idx(q, select_expr.table) IN
               IF rte_idx < 0 THEN {Fail(ErrStarRangeVar, q)}
               ELSE SelectLoop(Tail(select_clause),
                      [q EXCEPT !.targetlist =
                         @ \o expand_star_in_targetlist(q.rangetable[rte_idx + 1], rte_idx)])
          ELSE UNION {
                 IF o.err # NoError THEN {Fail(o.err, [q EXCEPT !.num_aggs = o.num_aggs])}
                 ELSE IF ResName(p, o.expr) = NoName
                 THEN {Fail(ErrCrash, [q EXCEPT !.num_aggs = o.num_aggs])}
                 ELSE SelectLoop(Tail(select_clause),
                        [q EXCEPT !.num_aggs = o.num_aggs,
                                  !.targetlist = Append(@, TargetEntry(ResName(p, o.expr), o.expr))])
                 : o \in Expr_analyze(select_expr, q) }

analyze_select_clause(select_clause, q) ==
  IF select_clause.null
  THEN {Ok([q EXCEPT !.targetlist = @ \o ExpandAll(q, 1)])}
  ELSE SelectLoop(select_clause.list, q)

analyze_where_clause(where_clause, q) ==
  IF where_clause = NoPExpr THEN {Ok([q EXCEPT !.where_predicate = NoExpr])}
  ELSE { IF p.err # NoError THEN Fail(p.err, [q EXCEPT !.num_aggs = p.num_aggs])
         ELSE IF p.expr.type.type # "BOOLEAN"
         THEN Fail(ErrWhereNotBool, [q EXCEPT !.num_aggs = p.num_aggs])
         ELSE Ok([q EXCEPT !.num_aggs = p.num_aggs, !.where_predicate = p.expr])
         : p \in Expr_analyze(where_clause, q) }

RECURSIVE check_group_by(_, _)
\* Expr::check_group_by: an expression passes when it equals a GROUP BY
\* expression, is an aggregate or a constant, or is built from passing
\* expressions; a column that is not grouped fails.
check_group_by(e, groupby) ==
  IF ~groupby.null /\ \E i \in 1..Len(groupby.list) : groupby.list[i] = e THEN TRUE
  ELSE CASE e.node = "ColumnVar" -> FALSE
         [] e.node = "UOper" -> check_group_by(e.operand, groupby)
         [] e.node = "BinOper" ->
              check_group_by(e.left, groupby) /\ check_group_by(e.right, groupby)
         [] OTHER -> TRUE

RECURSIVE GroupByLoop(_, _, _)
\* The GROUP BY expressions analyzed in order: [err, q, list].
GroupByLoop(clause, q, done) ==
  IF clause = <<>> THEN {[err |-> NoError, q |-> q, list |-> done]}
  ELSE UNION {
         IF e.err # NoError
         THEN {[err |-> e.err, q |-> [q EXCEPT !.num_aggs = e.num_aggs], list |-> done]}
         ELSE GroupByLoop(Tail(clause), [q EXCEPT !.num_aggs = e.num_aggs],
                          Append(done, e.expr))
         : e \in Expr_analyze(Head(clause), q) }

\* The target-list positions analyze_group_by passes to check_group_by: the
\* targets that are not aggregates, up to and including the first that fails.
GroupByChecked(q, groupby) ==
  IF q.num_aggs > 0 \/ ~groupby.null
  THEN { i \in 1..Len(q.targetlist) :
           /\ q.targetlist[i].expr.node # "AggExpr"
           /\ \A j \in 1..(i - 1) :
                \/ q.targetlist[j].expr.node = "AggExpr"
                \/ check_group_by(q.targetlist[j].expr, groupby) }
  ELSE {}

\* analyze_group_by yields [err, q, checked].
analyze_group_by(groupby_clause, q) ==
  { IF g.err # NoError THEN [err |-> g.err, q |-> g.q, checked |-> {}]
    ELSE LET groupby == IF groupby_clause.null THEN NullList ELSE List(g.list)
             chk == GroupByChecked(g.q, groupby)
         IN IF \E i \in chk : ~check_group_by(g.q.targetlist[i].expr, groupby)
            THEN [err |-> ErrGroupBy, q |-> g.q, checked |-> chk]
            ELSE [err |-> NoError, q |-> [g.q EXCEPT !.group_by = groupby], checked |-> chk]
    : g \in GroupByLoop(groupby_clause.list, q, <<>>) }

analyze_having_clause(having_clause, q) ==
  IF having_clause = NoPExpr THEN {Ok([q EXCEPT !.having_predicate = NoExpr])}
  ELSE { IF p.err # NoError THEN Fail(p.err, [q EXCEPT !.num_aggs = p.num_aggs])
         ELSE IF p.expr.type.type # "BOOLEAN"
         THEN Fail(ErrHavingNotBool, [q EXCEPT !.num_aggs = p.num_aggs])
         ELSE IF ~check_group_by(p.expr, q.group_by)
         THEN Fail(ErrGroupBy, [q EXCEPT !.num_aggs = p.num_aggs])
         ELSE Ok([q EXCEPT !.num_aggs = p.num_aggs, !.having_predicate = p.expr])
         : p \in Expr_analyze(having_clause, q) }

OrderEntry(tle_no, is_desc, nulls_first) ==
  [tle_no |-> tle_no, is_desc |-> is_desc, nulls_first |-> nulls_first]

RECURSIVE OrderByLoop(_, _, _)
\* The ORDER BY loop of SelectStmt::analyze: [err, list].  A column number is
\* taken as given; a name is looked up among the targets' result names.
OrderByLoop(clause, tlist, done) ==
  IF clause = <<>> THEN [err |-> NoError, list |-> done]
  ELSE LET p == Head(clause) IN
       IF p.colno = 0
       THEN IF \E i \in 1..Len(tlist) : tlist[i].resname = p.column
            THEN LET tle_no == CHOOSE i \in 1..Len(tlist) :
                                 /\ tlist[i].resname = p.column
                                 /\ \A j \in 1..(i - 1) : tlist[j].resname # p.column
                 IN OrderByLoop(Tail(clause), tlist,
                                Append(done, OrderEntry(tle_no, p.is_desc, p.nulls_first)))
            ELSE [err |-> ErrOrderByName, list |-> done]
       ELSE OrderByLoop(Tail(clause), tlist,
                        Append(done, OrderEntry(p.colno, p.is_desc, p.nulls_first)))

\* SelectStmt::analyze after the query expression has been analyzed.
SelectStmt_order_by(orderby_clause, q) ==
  IF orderby_clause.null THEN Ok([q EXCEPT !.order_by = NullList])
  ELSE LET o == OrderByLoop(orderby_clause.list, q.targetlist, <<>>) IN
       IF o.err # NoError THEN Fail(o.err, q)
       ELSE Ok([q EXCEPT !.order_by = List(o.list)])

\* InsertStmt::analyze.  The range table entry it builds is not added to the
\* query.
InsertStmt_analyze(table, column_list, q) ==
  LET q1 == [q EXCEPT !.stmt_type = "kINSERT"]
      td == getMetadataForTable(table)
  IN IF td = NullTD THEN Fail(ErrNoTable, q1)
     ELSE IF td.isView /\ ~td.isMaterialized THEN Fail(ErrInsertView, q1)
     ELSE LET q2 == [q1 EXCEPT !.result_table_id = td.tableId]
              all_cols == getAllColumnMetadataForTable(td.tableId)
          IN IF column_list.null
             THEN Ok([q2 EXCEPT !.result_col_list =
                        [i \in 1..Len(all_cols) |-> all_cols[i].columnId]])
             ELSE IF \E i \in 1..Len(column_list.list) :
                        getMetadataForColumn(td.tableId, column_list.list[i]) = NullCD
             THEN Fail(ErrInsertNoColumn, q2)
             ELSE Ok([q2 EXCEPT !.result_col_list =
                        [i \in 1..Len(column_list.list) |->
                           getMetadataForColumn(td.tableId, column_list.list[i]).columnId]])

\* *it for the k-th value: the k-th result column, or, past the end of the
\* list, whatever the list's end node holds.
IteratorDeref(result_col_list, k) ==
  IF k <= Len(result_col_list) THEN {result_col_list[k]} ELSE GarbageInts \cup {1}

RECURSIVE ValuesLoop(_, _, _)
\* The loop of InsertValuesStmt::analyze from the k-th value on.
ValuesLoop(value_list, k, q) ==
  IF value_list = <<>> THEN {Ok(q)}
  ELSE UNION {
         IF e.err # NoError THEN {Fail(e.err, [q EXCEPT !.num_aggs = e.num_aggs])}
         ELSE UNION {
           LET cd == getMetadataForColumnId(q.result_table_id, colId) IN
           IF cd = NullCD THEN {Fail(ErrAssert, [q EXCEPT !.num_aggs = e.num_aggs])}
           ELSE ValuesLoop(Tail(value_list), k + 1,
                  [q EXCEPT !.num_aggs = e.num_aggs,
                            !.targetlist = Append(@, TargetEntry("", add_cast(e.expr, cd.columnType)))])
           : colId \in IteratorDeref(q.result_col_list, k) }
         : e \in Expr_analyze(Head(value_list), q) }

InsertValuesStmt_analyze(table, column_list, value_list, q) ==
  LET base == InsertStmt_analyze(table, column_list, q) IN
  IF base.err # NoError THEN {base} ELSE ValuesLoop(value_list, 1, base.q)

(***************************************************************************)
(* The analysis of a statement, clause by clause.                          *)
(***************************************************************************)
\* QuerySpec::analyze with GROUP BY analyzed before WHERE.
QuerySpecOrder_GroupByFirst == <<"from", "select", "groupby", "where", "having">>

\* QuerySpec::analyze: the clause analyzers in the order they are called.
QuerySpecOrder == <<"from", "select", "where", "groupby", "having">>

\* Where the analysis goes after clause c returned.
AfterClause(c) ==
  LET i == CHOOSE k \in 1..Len(QuerySpecOrder) : QuerySpecOrder[k] = c IN
  IF i < Len(QuerySpecOrder) THEN QuerySpecOrder[i + 1]
  ELSE IF stmt.class = "SelectStmt" THEN "orderby" ELSE "done"

\* The clause analyzer named c returned r (or threw r.err).
Return(c, r, next) ==
  /\ query' = r.q
  /\ err' = r.err
  /\ pc' = IF r.err = NoError THEN next ELSE "error"
  /\ log' = Append(log, c)

\* SelectStmt::analyze up to its call of query_expr->analyze.
SelectStmtBegin ==
  /\ pc = "idle"
  /\ \E limit \in {10}, offset \in {0} :
       query' = [query EXCEPT !.stmt_type = "kSELECT", !.limit = limit, !.offset = offset]
  /\ stmt' = [stmt EXCEPT !.class = "SelectStmt"]
  /\ pc' = QuerySpecOrder[1]
  /\ UNCHANGED <<checked, log, err, catalog, syscat, ddl, ex>>

\* InsertQueryStmt::analyze up to its call of query->analyze.
InsertQueryStmtBegin ==
  /\ pc = "idle"
  /\ \E table \in InsertTables, column_list \in InsertColumnLists :
       /\ stmt' = [stmt EXCEPT !.class = "InsertQueryStmt", !.table = table,
                               !.column_list = column_list]
       /\ Return("insert", InsertStmt_analyze(table, column_list, query), QuerySpecOrder[1])
  /\ UNCHANGED <<checked, catalog, syscat, ddl, ex>>

InsertValuesStmtAnalyze ==
  /\ pc = "idle"
  /\ \E table \in InsertTables, column_list \in InsertColumnLists, value_list \in ValueLists :
       /\ stmt' = [stmt EXCEPT !.class = "InsertValuesStmt", !.table = table,
                               !.column_list = column_list, !.value_list = value_list]
       /\ \E r \in InsertValuesStmt_analyze(table, column_list, value_list, query) :
            Return("insert", r, "done")
  /\ UNCHANGED <<checked, catalog, syscat, ddl, ex>>

\* QuerySpec::analyze: set_is_distinct and analyze_from_clause.
AnalyzeFromClause ==
  /\ pc = "from"
  /\ \E is_distinct \in BOOLEAN, from_clause \in FromClauses :
       /\ stmt' = [stmt EXCEPT !.is_distinct = is_distinct, !.from_clause = from_clause]
       /\ Return("from",
                 analyze_from_clause(from_clause, [query EXCEPT !.is_distinct = is_distinct]),
                 AfterClause("from"))
  /\ UNCHANGED <<checked, catalog, syscat, ddl, ex>>

AnalyzeSelectClause ==
  /\ pc = "select"
  /\ \E select_clause \in SelectClauses :
       /\ stmt' = [stmt EXCEPT !.select_clause = select_clause]
       /\ \E r \in analyze_select_clause(select_clause, query) :
            Return("select", r, AfterClause("select"))
  /\ UNCHANGED <<checked, catalog, syscat, ddl, ex>>

AnalyzeWhereClause ==
  /\ pc = "where"
  /\ \E where_clause \in WhereClauses :
       /\ stmt' = [stmt EXCEPT !.where_clause = where_clause]
       /\ \E r \in analyze_where_clause(where_clause, query) :
            Return("where", r, AfterClause("where"))
  /\ UNCHANGED <<checked, catalog, syscat, ddl, ex>>

AnalyzeGroupBy ==
  /\ pc = "groupby"
  /\ \E groupby_clause \in GroupByClauses :
       /\ stmt' = [stmt EXCEPT !.groupby_clause = groupby_clause]
       /\ \E r \in analyze_group_by(groupby_clause, query) :
            /\ Return("groupby", r, AfterClause("groupby"))
            /\ checked' = r.checked
  /\ UNCHANGED <<catalog, syscat, ddl, ex>>

AnalyzeHavingClause ==
  /\ pc = "having"
  /\ \E having_clause \in HavingClauses :
       /\ stmt' = [stmt EXCEPT !.having_clause = having_clause]
       /\ \E r \in analyze_having_clause(having_clause, query) :
            Return("having", r, AfterClause("having"))
  /\ UNCHANGED <<checked, catalog, syscat, ddl, ex>>

\* SelectStmt::analyze after query_expr->analyze returned.
AnalyzeOrderBy ==
  /\ pc = "orderby"
  /\ \E orderby_clause \in OrderByClauses :
       /\ stmt' = [stmt EXCEPT !.orderby_clause = orderby_clause]
       /\ Return("orderby", SelectStmt_order_by(orderby_clause, query), "done")
  /\ UNCHANGED <<checked, catalog, syscat, ddl, ex>>

(***************************************************************************)
(* The system catalog.  The session is in the database currentDB as the    *)
(* user currentUser; calls records, in order, every call of a mutating     *)
(* method of SysCatalog with the database the session was in.              *)
(***************************************************************************)
MAPD_SYSTEM_DB == "mapd"
MAPD_ROOT_USER == "mapd"

UserMetadata(userId, userName, passwd, isSuper) ==
  [userId |-> userId, userName |-> userName, passwd |-> passwd, isSuper |-> isSuper]

DBMetadata(dbName, dbOwner) == [dbName |-> dbName, dbOwner |-> dbOwner]

\* The catalog of a session in the database db, before any statement.
SysCatalogIn(db) ==
  [currentDB |-> db, currentUser |-> 0,
   users |-> {UserMetadata(0, MAPD_ROOT_USER, "root", TRUE)},
   dbs |-> {DBMetadata(MAPD_SYSTEM_DB, 0), DBMetadata("db1", 0)},
   calls |-> <<>>, executed |-> 0, err |-> NoError]

NoEx == [op |-> "none"]

\* No table or view statement has been executed.
NoDDL == [class |-> "none", executed |-> 0, err |-> NoError, calls |-> <<>>]

Init ==
  /\ pc = "idle"
  /\ stmt = NewStmt
  /\ query = NewQuery
  /\ checked = {}
  /\ log = <<>>
  /\ err = NoError
  /\ catalog = InitCatalog
  /\ syscat = SysCatalogIn(MAPD_SYSTEM_DB)
  /\ ddl = NoDDL
  /\ ex = NoEx

Next ==
  \/ SelectStmtBegin
  \/ InsertQueryStmtBegin
  \/ InsertValuesStmtAnalyze
  \/ AnalyzeFromClause
  \/ AnalyzeSelectClause
  \/ AnalyzeWhereClause
  \/ AnalyzeGroupBy
  \/ AnalyzeHavingClause
  \/ AnalyzeOrderBy

Spec == Init /\ [][Next]_vars

(***************************************************************************)
(* Properties of statement analysis.                                       *)
(***************************************************************************)
LastClause == IF log = <<>> THEN "none" ELSE log[Len(log)]

\* The clause whose analyzer returned last returned without an exception.
Returned(c) == LastClause = c /\ pc # "error"

IsPrefix(s, t) == Len(s) <= Len(t) /\ \A i \in 1..Len(s) : s[i] = t[i]

\* The 0-based positions of the range table entries whose table has column c.
EntriesWith(c) ==
  { i \in 0..(Len(query.rangetable) - 1) : get_column_desc(query.rangetable[i + 1], c) # NullCD }

\* The select list is the single unqualified, unaliased column c.
SelectsOnly(c) == stmt.select_clause = List(<<SelectEntry(ColumnRef(NoName, c), NoName)>>)

\* C1: an unqualified column name resolves to the one range table entry that
\* has the column, wherever that entry stands in the range table; with two
\* or more such entries the analysis fails as ambiguous, with none it fails
\* as "does not exist".
C1_UnqualifiedColumnResolves ==
  \A c \in {"a", "b", "c"} :
    (LastClause = "select" /\ SelectsOnly(c)) =>
      /\ Cardinality(EntriesWith(c)) = 1 =>
           /\ pc # "error"
           /\ Len(query.targetlist) = 1
           /\ query.targetlist[1].expr.node = "ColumnVar"
           /\ query.targetlist[1].expr.rte_idx \in EntriesWith(c)
      /\ Cardinality(EntriesWith(c)) >= 2 => (pc = "error" /\ err = ErrAmbiguous)
      /\ Cardinality(EntriesWith(c)) = 0 => (pc = "error" /\ err = ErrNoColumn)

RECURSIVE ColumnVarsOf(_)
\* The ColumnVar nodes of an analyzed expression.
ColumnVarsOf(e) ==
  CASE e.node = "ColumnVar" -> {e}
    [] e.node = "UOper" -> ColumnVarsOf(e.operand)
    [] e.node = "BinOper" -> ColumnVarsOf(e.left) \cup ColumnVarsOf(e.right)
    [] e.node = "AggExpr" -> ColumnVarsOf(e.arg)
    [] OTHER -> {}

ColumnVarsOfQuery(q) ==
  UNION ( { ColumnVarsOf(q.targetlist[i].expr) : i \in 1..Len(q.targetlist) }
          \cup { ColumnVarsOf(q.group_by.list[i]) : i \in 1..Len(q.group_by.list) }
          \cup { ColumnVarsOf(q.where_predicate), ColumnVarsOf(q.having_predicate) } )

\* A ColumnVar names an entry of the range table and a column the catalog holds
\* for that entry's table.
ValidColumnVar(cv, q) ==
  /\ cv.rte_idx \in 0..(Len(q.rangetable) - 1)
  /\ cv.table_id = q.rangetable[cv.rte_idx + 1].table_id
  /\ getMetadataForColumnId(cv.table_id, cv.column_id) # NullCD

\* C2: after a successful analysis of a statement every ColumnVar of the query
\* has an rte_idx within the query's range table and the table and column ids
\* of a catalog column of that entry's table.
C2_ColumnVarsResolved ==
  pc = "done" => \A cv \in ColumnVarsOfQuery(query) : ValidColumnVar(cv, query)

\* C3: when QuerySpec::analyze returns with num_aggs > 0 or a GROUP BY list,
\* check_group_by has been called on every target that is not an aggregate.
C3_NonAggregateTargetsChecked ==
  (Returned("having") /\ (query.num_aggs > 0 \/ ~query.group_by.null)) =>
    \A i \in 1..Len(query.targetlist) :
      query.targetlist[i].expr.node # "AggExpr" => i \in checked

\* C8: after a successful SelectStmt::analyze with ORDER BY every entry's
\* target index lies in 1..|targetlist|.
C8_OrderByIndexInRange ==
  (pc = "done" /\ stmt.class = "SelectStmt" /\ ~query.order_by.null) =>
    \A i \in 1..Len(query.order_by.list) :
      query.order_by.list[i].tle_no \in 1..Len(query.targetlist)

\* C9: after a successful analysis of an INSERT there is one target per result
\* column and the i-th target has the type of the i-th result column.
C9_InsertTargetsMatchColumns ==
  (pc = "done" /\ stmt.class \in {"InsertValuesStmt", "InsertQueryStmt"}) =>
    /\ Len(query.targetlist) = Len(query.result_col_list)
    /\ \A i \in 1..Len(query.targetlist) :
         query.targetlist[i].expr.type =
           getMetadataForColumnId(query.result_table_id, query.result_col_list[i]).columnType

\* The analyzers a statement of each class runs, in order.
ExpectedLog ==
  CASE stmt.class = "SelectStmt" -> <<"from", "select", "where", "groupby", "having", "orderby">>
    [] stmt.class = "InsertQueryStmt" -> <<"insert", "from", "select", "where", "groupby", "having">>
    [] stmt.class = "InsertValuesStmt" -> <<"insert">>
    [] OTHER -> <<>>

Ran(c) == \E i \in 1..Len(log) : log[i] = c

\* What the clause analyzer c writes is as the constructor left it.
Untouched(c) ==
  CASE c = "from" -> query.rangetable = <<>>
    [] c = "select" -> query.targetlist = <<>>
    [] c = "where" -> query.where_predicate = NoExpr
    [] c = "groupby" -> query.group_by.null /\ checked = {}
    [] c = "having" -> query.having_predicate = NoExpr
    [] c = "orderby" -> query.order_by.null
    [] OTHER -> TRUE

ColumnNames(table_id) ==
  LET cols == getAllColumnMetadataForTable(table_id) IN
  [i \in 1..Len(cols) |-> cols[i].columnName]

RECURSIVE AllColumnNames(_, _)
AllColumnNames(rt, i) ==
  IF i > Len(rt) THEN <<>> ELSE ColumnNames(rt[i].table_id) \o AllColumnNames(rt, i + 1)

\* What a select entry contributes to the target list, read off the parse tree.
EntryShape(p) ==
  LET e == p.select_expr IN
  CASE e.kind = "ColumnRef" /\ e.column = NoName ->
         LET rte_idx == get_rte_idx(query, e.table) IN
         IF rte_idx < 0 THEN <<>> ELSE ColumnNames(query.rangetable[rte_idx + 1].table_id)
    [] e.kind = "ColumnRef" /\ e.column # NoName -> <<e.column>>
    [] e.kind = "FunctionRef" -> <<"aggregate">>
    [] OTHER -> <<"constant">>

RECURSIVE SelectShape(_)
SelectShape(sc) == IF sc = <<>> THEN <<>> ELSE EntryShape(Head(sc)) \o SelectShape(Tail(sc))

TargetShape(t) ==
  CASE t.expr.node = "ColumnVar" -> getMetadataForColumnId(t.expr.table_id, t.expr.column_id).columnName
    [] t.expr.node = "AggExpr" -> "aggregate"
    [] OTHER -> "constant"

\* C4: the clauses of a query are analyzed in the order FROM, SELECT, WHERE,
\* GROUP BY, HAVING, each only after the one before it returned; a clause that
\* has not run has written nothing; the range table follows the FROM clause
\* and the target list the SELECT list, entry by entry, in source order.
C4_ClauseOrder ==
  /\ IsPrefix(log, ExpectedLog)
  /\ pc = "error" => err # NoError
  /\ stmt.class # "InsertValuesStmt" =>
       /\ \A c \in {"from", "select", "where", "groupby", "having", "orderby"} :
            ~Ran(c) => Untouched(c)
       /\ ~Ran("select") => query.num_aggs = 0
  /\ LET names == [i \in 1..Len(stmt.from_clause) |-> stmt.from_clause[i].table_name]
         rvars == [i \in 1..Len(query.rangetable) |-> query.rangetable[i].range_var]
     IN /\ IsPrefix(rvars, names)
        /\ (Ran("from") /\ LastClause # "from") => rvars = names
        /\ Returned("from") => rvars = names
  /\ Ran("select") =>
       LET want == IF stmt.select_clause.null THEN AllColumnNames(query.rangetable, 1)
                   ELSE SelectShape(stmt.select_clause.list)
           have == [i \in 1..Len(query.targetlist) |-> TargetShape(query.targetlist[i])]
       IN /\ IsPrefix(have, want)
          /\ (LastClause # "select" \/ pc # "error") => have = want

\* A WHERE clause throws after FROM and SELECT have each written two entries.
C4_Witness ==
  /\ pc = "error"
  /\ LastClause = "where"
  /\ Len(query.rangetable) = 2
  /\ Len(query.targetlist) = 2
  /\ query.targetlist[1] # query.targetlist[2]

(***************************************************************************)
(* Analyzed expressions as nodes of a heap, for the analyzers whose result *)
(* depends on which node a pointer names: a node is its position in the    *)
(* heap, its children are positions, NoNode is nullptr.                    *)
(***************************************************************************)
NoNode == 0

HNode(node, ti, op, left, right, is_null) ==
  [node |-> node, type |-> ti, optype |-> op, left |-> left, right |-> right,
   is_null |-> is_null]

\* new: the node is placed after all the nodes that exist.
Alloc(h, n) == [heap |-> Append(h, n), id |-> Len(h) + 1]

\* Expr::add_cast and Constant::add_cast on the node id: a Constant whose value
\* the new type can represent is retyped in place and stays the same node; any
\* other expression of another type becomes the operand of a new CAST node.
add_cast_node(h, id, ti) ==
  LET e == h[id] IN
  IF e.node = "Constant" /\ (e.is_null \/ (IS_NUMBER(e.type.type) /\ IS_NUMBER(ti.type))
                                        \/ (IS_STRING(e.type.type) /\ IS_STRING(ti.type)))
  THEN [heap |-> [h EXCEPT ![id].type = ti], id |-> id]
  ELSE IF e.type = ti THEN [heap |-> h, id |-> id]
  ELSE Alloc(h, HNode("UOper", ti, "CAST", id, NoNode, FALSE))

RECURSIVE deep_copy(_, _)
\* Expr::deep_copy: a new node for every node of the subtree.
deep_copy(h, id) ==
  LET e == h[id] IN
  IF e.left = NoNode THEN Alloc(h, e)
  ELSE LET l == deep_copy(h, e.left) IN
       IF e.right = NoNode THEN Alloc(l.heap, [e EXCEPT !.left = l.id])
       ELSE LET r == deep_copy(l.heap, e.right) IN
            Alloc(r.heap, [e EXCEPT !.left = l.id, !.right = r.id])

RECURSIVE Reach(_, _)
\* The nodes of the subtree at id.
Reach(h, id) ==
  IF id = NoNode THEN {}
  ELSE {id} \cup Reach(h, h[id].left) \cup Reach(h, h[id].right)

BOOLEAN_TI == TI("BOOLEAN", 0, 0, FALSE)

\* The argument of the upper predicate without its deep copy.
UpperArg_Shared(h, arg_expr) == [heap |-> h, id |-> arg_expr]

\* arg_expr->deep_copy() in BetweenExpr::analyze.
UpperArg(h, arg_expr) == deep_copy(h, arg_expr)

\* new BinOper(kBOOLEAN, op, kONE, left->add_cast(tl), r): r is the heap and
\* the node that right->add_cast(tr) left.
BinOperOver(left, op, r) ==
  Alloc(r.heap, HNode("BinOper", BOOLEAN_TI, op, left, r.id, FALSE))

\* The two casts of a predicate of BETWEEN: l is the heap and the node that
\* left->add_cast(tl) left.
CastRight(l, op, right, tr) == BinOperOver(l.id, op, add_cast_node(l.heap, right, tr))

\* new BinOper(kBOOLEAN, op, kONE, left->add_cast(tl), right->add_cast(tr)).
NewPredicate(h, op, left, tl, right, tr) ==
  CastRight(add_cast_node(h, left, tl), op, right, tr)

\* The predicate on the upper bound, on the copy c of the argument.
UpperPredicate(c, tl, upper_expr, tr) == NewPredicate(c.heap, "<=", c.id, tl, upper_expr, tr)

\* new BinOper(kBOOLEAN, kAND, kONE, lower_pred, upper_pred).
AndOver(lower_pred, upper_pred) ==
  Alloc(upper_pred.heap, HNode("BinOper", BOOLEAN_TI, "AND", lower_pred, upper_pred.id, FALSE))

\* new UOper(kBOOLEAN, kNOT, result).
NotOver(result) == Alloc(result.heap, HNode("UOper", BOOLEAN_TI, "NOT", result.id, NoNode, FALSE))

\* The expression a successful analysis returns.
Returns(result) == [err |-> NoError, heap |-> result.heap, id |-> result.id]

\* BetweenExpr::analyze after lower_pred has been built.
BetweenUpper(lower_pred, arg_expr, lower_expr, upper_expr, is_not) ==
  LET le == analyze_type_info("<=", lower_pred.heap[arg_expr].type,
                              lower_pred.heap[lower_expr].type)
  IN
  IF le.err # NoError THEN [err |-> le.err, heap |-> lower_pred.heap, id |-> NoNode]
  ELSE IF is_not
  THEN Returns(NotOver(AndOver(lower_pred.id,
                 UpperPredicate(UpperArg(lower_pred.heap, arg_expr), le.new_left_type,
                                upper_expr, le.new_right_type))))
  ELSE Returns(AndOver(lower_pred.id,
                 UpperPredicate(UpperArg(lower_pred.heap, arg_expr), le.new_left_type,
                                upper_expr, le.new_right_type)))

\* BetweenExpr::analyze on the analyzed operands: [err, heap, id].
BetweenExpr_analyze(h, arg_expr, lower_expr, upper_expr, is_not) ==
  LET ge == analyze_type_info(">=", h[arg_expr].type, h[lower_expr].type) IN
  IF ge.err # NoError THEN [err |-> ge.err, heap |-> h, id |-> NoNode]
  ELSE BetweenUpper(NewPredicate(h, ">=", arg_expr, ge.new_left_type,
                                 lower_expr, ge.new_right_type),
                    arg_expr, lower_expr, upper_expr, is_not)

\* The types and shapes of the analyzed operands the model draws.
OperandTypes ==
  { TI("SMALLINT", 0, 0, FALSE), TI("BIGINT", 0, 0, FALSE), TI("VARCHAR", 8, 0, FALSE),
    BOOLEAN_TI }

\* An analyzed operand of type ti: a column, a literal, or -column.
Operand(h, shape, ti) ==
  CASE shape = "Constant" -> Alloc(h, HNode("Constant", ti, "", NoNode, NoNode, FALSE))
    [] shape = "ColumnVar" -> Alloc(h, HNode("ColumnVar", ti, "", NoNode, NoNode, FALSE))
    [] OTHER -> LET c == Alloc(h, HNode("ColumnVar", ti, "", NoNode, NoNode, FALSE)) IN
                Alloc(c.heap, HNode("UOper", ti, "UMINUS", c.id, NoNode, FALSE))

\* BetweenExpr::analyze: the three operands are analyzed, then the predicates
\* are built.
AnalyzeBetween ==
  /\ ex.op = "none"
  /\ \E sa \in {"Constant", "ColumnVar", "UMinus"}, sl \in {"Constant", "ColumnVar"},
        su \in {"Constant", "ColumnVar"}, ta \in OperandTypes, tl \in OperandTypes,
        tu \in OperandTypes, is_not \in BOOLEAN :
       LET a == Operand(<<>>, sa, ta)
           l == Operand(a.heap, sl, tl)
           u == Operand(l.heap, su, tu)
           r == BetweenExpr_analyze(u.heap, a.id, l.id, u.id, is_not)
       IN ex' = [op |-> "between", arg |-> a.id, lower |-> l.id, upper |-> u.id,
                 arg_type |-> ta, lower_type |-> tl, upper_type |-> tu, is_not |-> is_not,
                 err |-> r.err, heap |-> r.heap, root |-> r.id]
  /\ UNCHANGED <<pc, stmt, query, checked, log, err, catalog, syscat, ddl>>

\* The AND node of a successful BETWEEN analysis, under the NOT if there is one.
AndNode == IF ex.is_not THEN ex.heap[ex.root].left ELSE ex.root
LowerPred == ex.heap[AndNode].left
UpperPred == ex.heap[AndNode].right

\* C5: the operands of the upper predicate have the types that the <= coercion
\* of the argument's type and the upper bound's type gives.
C5_UpperPredicateCoercion ==
  (ex.op = "between" /\ ex.err = NoError) =>
    LET t == analyze_type_info("<=", ex.heap[ex.arg].type, ex.upper_type) IN
    /\ t.err = NoError
    /\ ex.heap[UpperPred].optype = "<="
    /\ ex.heap[ex.heap[UpperPred].left].type = t.new_left_type
    /\ ex.heap[ex.heap[UpperPred].right].type = t.new_right_type

\* A node with its CAST wrappers removed.
RECURSIVE Uncast(_, _)
Uncast(h, id) == IF h[id].node = "UOper" /\ h[id].optype = "CAST" THEN Uncast(h, h[id].left) ELSE id

\* C6: the >= predicate and the <= predicate of an analyzed BETWEEN share no
\* node; the argument under <= is another node than the argument under >=,
\* of the same shape; the two predicates, the AND and the NOT are BOOLEAN.
C6_BetweenSharesNoNode ==
  (ex.op = "between" /\ ex.err = NoError) =>
    LET h == ex.heap
        loArg == Uncast(h, h[LowerPred].left)
        upArg == Uncast(h, h[UpperPred].left)
    IN /\ Reach(h, LowerPred) \cap Reach(h, UpperPred) = {}
       /\ loArg = ex.arg
       /\ upArg # ex.arg
       /\ h[upArg].node = h[loArg].node
       /\ Cardinality(Reach(h, upArg)) = Cardinality(Reach(h, loArg))
       /\ h[LowerPred].optype = ">=" /\ h[UpperPred].optype = "<="
       /\ h[AndNode].optype = "AND"
       /\ ex.is_not => h[ex.root].optype = "NOT"
       /\ \A n \in {LowerPred, UpperPred, AndNode, ex.root} : h[n].type = BOOLEAN_TI

\* A negated BETWEEN whose argument is a literal that the >= cast retyped in
\* place.
C6_Witness ==
  /\ ex.op = "between" /\ ex.err = NoError /\ ex.is_not
  /\ ex.heap[ex.arg].node = "Constant"
  /\ ex.heap[ex.arg].type # ex.arg_type
  /\ ex.heap[LowerPred].left = ex.arg

(***************************************************************************)
(* CaseExpr::analyze.                                                      *)
(***************************************************************************)
MaxWhen == 2

ErrCaseWhen == "Only boolean expressions can be used after WHEN."
ErrCaseThen == "expressions in THEN clause must be of the same or compatible types."
ErrCaseElse ==
  "expressions in ELSE clause must be of the same or compatible types as those in the THEN clauses."

NULLT_TI == TI("NULLT", 0, 0, FALSE)

CaseExpr(ti, expr_pair_list, else_expr) ==
  [node |-> "CaseExpr", type |-> ti, expr_pair_list |-> expr_pair_list, else_expr |-> else_expr]

\* The branches on the running type ti and the type t of a THEN result:
\* [err, ti, set], set meaning that the result takes ti by set_type_info.
ThenReconcile(ti, t) ==
  IF ti.type = "NULLT" THEN [err |-> NoError, ti |-> t, set |-> FALSE]
  ELSE IF t.type = "NULLT" THEN [err |-> NoError, ti |-> ti, set |-> TRUE]
  ELSE IF ti # t
  THEN IF IS_STRING(ti.type) /\ IS_STRING(t.type)
       THEN [err |-> NoError, ti |-> common_string_type(ti, t), set |-> FALSE]
       ELSE IF IS_NUMBER(ti.type) /\ IS_NUMBER(t.type)
       THEN [err |-> NoError, ti |-> common_numeric_type(ti, t), set |-> FALSE]
       ELSE [err |-> ErrCaseThen, ti |-> ti, set |-> FALSE]
  ELSE [err |-> NoError, ti |-> ti, set |-> FALSE]

\* The branches on the running type ti and the type t of the ELSE result.
ElseReconcile(ti, t) ==
  IF t.type = "NULLT" THEN [err |-> NoError, ti |-> ti, set |-> TRUE]
  ELSE IF ti # t
  THEN IF IS_STRING(ti.type) /\ IS_STRING(t.type)
       THEN [err |-> NoError, ti |-> common_string_type(ti, t), set |-> FALSE]
       ELSE IF IS_NUMBER(ti.type) /\ IS_NUMBER(t.type)
       THEN [err |-> NoError, ti |-> common_numeric_type(ti, t), set |-> FALSE]
       ELSE [err |-> ErrCaseElse, ti |-> ti, set |-> FALSE]
  ELSE [err |-> NoError, ti |-> ti, set |-> FALSE]

RECURSIVE CaseThenLoop(_, _, _, _)
\* The loop over when_then_list, on the analyzed WHEN and THEN expressions:
\* [err, ti, expr_pair_list].
CaseThenLoop(list, i, ti, pairs) ==
  IF i > Len(list) THEN [err |-> NoError, ti |-> ti, expr_pair_list |-> pairs]
  ELSE
  LET e1 == list[i][1]
      e2 == list[i][2]
  IN
  IF e1.type.type # "BOOLEAN" THEN [err |-> ErrCaseWhen, ti |-> ti, expr_pair_list |-> pairs]
  ELSE
  LET r == ThenReconcile(ti, e2.type) IN
  IF r.err # NoError THEN [err |-> r.err, ti |-> ti, expr_pair_list |-> pairs]
  ELSE CaseThenLoop(list, i + 1, r.ti,
                    Append(pairs, <<e1, IF r.set THEN [e2 EXCEPT !.type = ti] ELSE e2>>))

\* CaseExpr::analyze on the analyzed WHEN, THEN and ELSE expressions; else_expr
\* is NoExpr when the CASE has no ELSE: [err, expr].
CaseExpr_analyze(when_then_list, else_expr) ==
  LET th == CaseThenLoop(when_then_list, 1, NULLT_TI, <<>>) IN
  IF th.err # NoError THEN [err |-> th.err, expr |-> NoExpr]
  ELSE
  LET el == IF else_expr = NoExpr THEN [err |-> NoError, ti |-> th.ti, set |-> FALSE]
            ELSE ElseReconcile(th.ti, else_expr.type)
  IN
  IF el.err # NoError THEN [err |-> el.err, expr |-> NoExpr]
  ELSE
  LET ti == el.ti
      else_e == IF el.set THEN [else_expr EXCEPT !.type = th.ti] ELSE else_expr
      cast_expr_pair_list ==
        [k \in 1..Len(th.expr_pair_list) |->
           <<th.expr_pair_list[k][1], add_cast(th.expr_pair_list[k][2], ti)>>]
  IN [err |-> NoError,
      expr |-> CaseExpr(ti, cast_expr_pair_list,
                        IF else_expr = NoExpr THEN NoExpr ELSE add_cast(else_e, ti))]

\* The analyzed expressions the model draws after WHEN, and after THEN and ELSE.
WhenExprs ==
  { ColumnVar(BOOLEAN_TI, 1, 3, 0), Constant(TI("SMALLINT", 0, 0, FALSE), FALSE, I64(0, 1)) }

ResultExprs ==
  { NullLiteral_analyze,
    Constant(TI("SMALLINT", 0, 0, FALSE), FALSE, I64(0, 1)),
    ColumnVar(TI("BIGINT", 0, 0, FALSE), 1, 2, 0),
    ColumnVar(TI("VARCHAR", 8, 0, FALSE), 2, 2, 0),
    Constant(TI("VARCHAR", 3, 0, FALSE), FALSE, I64(0, 0)),
    ColumnVar(BOOLEAN_TI, 1, 3, 0),
    ColumnVar(TI("BOOLEAN", 0, 0, TRUE), 2, 3, 0),
    ColumnVar(TI("TIME", 0, 0, FALSE), 1, 4, 0),
    ColumnVar(TI("TIME", 0, 0, TRUE), 2, 4, 0) }

WhenThenLists == SeqsUpTo(WhenExprs \X ResultExprs, MaxWhen) \ {<<>>}

\* CaseExpr::analyze.
AnalyzeCase ==
  /\ ex.op = "none"
  /\ \E when_then_list \in WhenThenLists, else_expr \in ResultExprs \cup {NoExpr} :
       LET r == CaseExpr_analyze(when_then_list, else_expr) IN
       ex' = [op |-> "case", when_then_list |-> when_then_list, else_expr |-> else_expr,
              err |-> r.err, result |-> r.expr]
  /\ UNCHANGED <<pc, stmt, query, checked, log, err, catalog, syscat, ddl>>

NextExpr ==
  \/ AnalyzeBetween
  \/ AnalyzeCase

SpecExpr == Init /\ [][NextExpr]_vars

\* C7: the ELSE result is reconciled with the running type as a THEN result is,
\* and after success every THEN result and the ELSE result have the type of
\* the CaseExpr.
C7_ElseReconciledLikeThen ==
  (ex.op = "case" /\ ex.else_expr # NoExpr) =>
    LET th == CaseThenLoop(ex.when_then_list, 1, NULLT_TI, <<>>) IN
    th.err = NoError =>
      LET want == ThenReconcile(th.ti, ex.else_expr.type) IN
      IF want.err # NoError THEN ex.err # NoError
      ELSE /\ ex.err = NoError
           /\ ex.result.type = want.ti
           /\ \A k \in 1..Len(ex.result.expr_pair_list) :
                ex.result.expr_pair_list[k][2].type = want.ti
           /\ ex.result.else_expr.type = want.ti

\* The type tags of the THEN results and of the ELSE result of a CASE.
ResultTags(when_then_list, else_expr) ==
  { when_then_list[k][2].type.type : k \in 1..Len(when_then_list) }
    \cup (IF else_expr = NoExpr THEN {} ELSE {else_expr.type.type})

\* C23: a CASE whose WHEN conditions are all BOOLEAN and whose THEN and ELSE
\* results all have the same SQL type tag analyses successfully, whatever the
\* dimension, scale or nullability of the individual results.
C23_SameTagCaseSucceeds ==
  ( /\ ex.op = "case"
    /\ \A k \in 1..Len(ex.when_then_list) : ex.when_then_list[k][1].type.type = "BOOLEAN"
    /\ Cardinality(ResultTags(ex.when_then_list, ex.else_expr)) = 1 )
  => ex.err = NoError

(***************************************************************************)
(* CREATE / ALTER / DROP USER and CREATE / DROP DATABASE.                  *)
(***************************************************************************)
MaxStmts == 2
MaxOpts == 2

ErrCreateDBNotSys == "Must be in the system database to create databases."
ErrDropDBNotSys == "Must be in the system database to drop databases."
ErrCreateUserNotSys == "Must be in the system database to create users."
ErrDropUserNotSys == "Must be in the system database to drop users."
ErrOwnerLiteral == "Owner name must be a string literal."
ErrNoUser == "User does not exist."
ErrCreateDBOption == "Invalid CREATE DATABASE option. Only OWNER supported."
ErrPasswordLiteral == "Password must be a string literal."
ErrIsSuperLiteral == "IS_SUPER option must be a string literal."
ErrIsSuperValue == "Value to IS_SUPER must be TRUE or FALSE."
ErrUserOption == "Invalid CREATE USER option.  Should be PASSWORD or IS_SUPER."
ErrNoPassword == "Must have a password for CREATE USER."
ErrUserExists == "User already exists."
ErrCatalogNoUser == "SysCatalog: the user does not exist."
ErrDBExists == "Database already exists."
ErrNoDB == "Database does not exist."

StringLiteral(s) == [kind |-> "StringLiteral", stringval |-> s]

NameValueAssign(name, value) == [name |-> name, value |-> value]

\* The options the model draws, and the lists of them; a null list is drawn
\* only where the grammar allows the options to be left out.
NameValues ==
  { NameValueAssign("PASSWORD", StringLiteral("pw")),
    NameValueAssign("password", StringLiteral("")),
    NameValueAssign("password", IntLiteral(I64(0, 1))),
    NameValueAssign("Is_Super", StringLiteral("TRUE")),
    NameValueAssign("is_super", StringLiteral("False")),
    NameValueAssign("is_super", StringLiteral("maybe")),
    NameValueAssign("OWNER", StringLiteral("u1")),
    NameValueAssign("colour", StringLiteral("red")) }

NameValueLists == { List(l) : l \in SeqsUpTo(NameValues, MaxOpts) \cup {<<>>} }

UserNames == {"u1", "u2"}
DBNames == {"db1", "db2"}

\* SysCatalog::getMetadataForUser: the user's metadata, or userId -1.
getMetadataForUser(sc, name) ==
  IF \E u \in sc.users : u.userName = name
  THEN CHOOSE u \in sc.users : u.userName = name
  ELSE UserMetadata(-1, name, "", FALSE)

\* A call of a mutating method of SysCatalog.
Call(sc, fn, name) == Append(sc.calls, [fn |-> fn, name |-> name, db |-> sc.currentDB])

NextUserId(sc) == Cardinality(sc.users) + Len(sc.calls)

\* SysCatalog::createUser.
createUser(sc, name, passwd, is_super) ==
  IF getMetadataForUser(sc, name).userId # -1
  THEN [sc EXCEPT !.calls = Call(sc, "createUser", name), !.err = ErrUserExists]
  ELSE [sc EXCEPT !.calls = Call(sc, "createUser", name), !.err = NoError,
                  !.users = @ \cup {UserMetadata(NextUserId(sc), name, passwd, is_super)}]

\* A pointer to a local or to a string of the parse tree, or nullptr.
NullPtr == [null |-> TRUE]
Ptr(v) == [null |-> FALSE, val |-> v]

\* SysCatalog::alterUser: a null passwd or is_superp leaves the field as it is.
alterUser(sc, name, passwd, is_superp) ==
  LET u == getMetadataForUser(sc, name) IN
  IF u.userId = -1
  THEN [sc EXCEPT !.calls = Call(sc, "alterUser", name), !.err = ErrCatalogNoUser]
  ELSE [sc EXCEPT !.calls = Call(sc, "alterUser", name), !.err = NoError,
                  !.users = (@ \ {u}) \cup
                    {UserMetadata(u.userId, name,
                                  IF passwd.null THEN u.passwd ELSE passwd.val,
                                  IF is_superp.null THEN u.isSuper ELSE is_superp.val)}]

\* SysCatalog::dropUser.
dropUser(sc, name) ==
  LET u == getMetadataForUser(sc, name) IN
  IF u.userId = -1
  THEN [sc EXCEPT !.calls = Call(sc, "dropUser", name), !.err = ErrCatalogNoUser]
  ELSE [sc EXCEPT !.calls = Call(sc, "dropUser", name), !.err = NoError, !.users = @ \ {u}]

\* SysCatalog::createDatabase.
createDatabase(sc, name, ownerId) ==
  IF \E d \in sc.dbs : d.dbName = name
  THEN [sc EXCEPT !.calls = Call(sc, "createDatabase", name), !.err = ErrDBExists]
  ELSE [sc EXCEPT !.calls = Call(sc, "createDatabase", name), !.err = NoError,
                  !.dbs = @ \cup {DBMetadata(name, ownerId)}]

\* SysCatalog::dropDatabase.
dropDatabase(sc, name) ==
  IF \E d \in sc.dbs : d.dbName = name
  THEN [sc EXCEPT !.calls = Call(sc, "dropDatabase", name), !.err = NoError,
                  !.dbs = {d \in @ : d.dbName # name}]
  ELSE [sc EXCEPT !.calls = Call(sc, "dropDatabase", name), !.err = ErrNoDB]

\* A statement that throws before it calls the system catalog.
Throws(sc, msg) == [sc EXCEPT !.err = msg]

RECURSIVE CreateDBOptions(_, _, _, _)
\* The loop over name_value_list in CreateDBStmt::execute: [err, ownerId].
CreateDBOptions(sc, list, i, ownerId) ==
  IF i > Len(list) THEN [err |-> NoError, ownerId |-> ownerId]
  ELSE
  LET p == list[i] IN
  IF iequals(p.name, "owner")
  THEN IF p.value.kind # "StringLiteral" THEN [err |-> ErrOwnerLiteral, ownerId |-> ownerId]
       ELSE LET user == getMetadataForUser(sc, p.value.stringval) IN
            IF user.userId = -1 THEN [err |-> ErrNoUser, ownerId |-> ownerId]
            ELSE CreateDBOptions(sc, list, i + 1, user.userId)
  ELSE [err |-> ErrCreateDBOption, ownerId |-> ownerId]

\* CreateDBStmt::execute.
CreateDBStmt_execute(sc, db_name, name_value_list) ==
  IF sc.currentDB # MAPD_SYSTEM_DB THEN Throws(sc, ErrCreateDBNotSys)
  ELSE
  LET o == IF name_value_list.null THEN [err |-> NoError, ownerId |-> sc.currentUser]
           ELSE CreateDBOptions(sc, name_value_list.list, 1, sc.currentUser)
  IN IF o.err # NoError THEN Throws(sc, o.err)
     ELSE createDatabase(sc, db_name, o.ownerId)

\* DropDBStmt::execute.
DropDBStmt_execute(sc, db_name) ==
  IF sc.currentDB # MAPD_SYSTEM_DB THEN Throws(sc, ErrDropDBNotSys)
  ELSE dropDatabase(sc, db_name)

RECURSIVE CreateUserOptions(_, _, _, _)
\* The loop over name_value_list in CreateUserStmt::execute:
\* [err, passwd, is_super].
CreateUserOptions(list, i, passwd, is_super) ==
  IF i > Len(list) THEN [err |-> NoError, passwd |-> passwd, is_super |-> is_super]
  ELSE
  LET p == list[i]
      bad(msg) == [err |-> msg, passwd |-> passwd, is_super |-> is_super]
  IN
  IF iequals(p.name, "password")
  THEN IF p.value.kind # "StringLiteral" THEN bad(ErrPasswordLiteral)
       ELSE CreateUserOptions(list, i + 1, p.value.stringval, is_super)
  ELSE IF iequals(p.name, "is_super")
  THEN IF p.value.kind # "StringLiteral" THEN bad(ErrIsSuperLiteral)
       ELSE IF iequals(p.value.stringval, "true")
       THEN CreateUserOptions(list, i + 1, passwd, TRUE)
       ELSE IF iequals(p.value.stringval, "false")
       THEN CreateUserOptions(list, i + 1, passwd, FALSE)
       ELSE bad(ErrIsSuperValue)
  ELSE bad(ErrUserOption)

\* CreateUserStmt::execute with the test of the current database moved behind
\* the call of createUser.
CreateUserStmt_execute_CallFirst(sc, user_name, name_value_list) ==
  LET o == CreateUserOptions(name_value_list, 1, "", FALSE) IN
  IF o.err # NoError THEN Throws(sc, o.err)
  ELSE IF o.passwd = "" THEN Throws(sc, ErrNoPassword)
  ELSE IF sc.currentDB # MAPD_SYSTEM_DB
  THEN Throws(createUser(sc, user_name, o.passwd, o.is_super), ErrCreateUserNotSys)
  ELSE createUser(sc, user_name, o.passwd, o.is_super)

\* CreateUserStmt::execute.
CreateUserStmt_execute(sc, user_name, name_value_list) ==
  LET o == CreateUserOptions(name_value_list, 1, "", FALSE) IN
  IF o.err # NoError THEN Throws(sc, o.err)
  ELSE IF o.passwd = "" THEN Throws(sc, ErrNoPassword)
  ELSE IF sc.currentDB # MAPD_SYSTEM_DB THEN Throws(sc, ErrCreateUserNotSys)
  ELSE createUser(sc, user_name, o.passwd, o.is_super)

RECURSIVE AlterUserOptions(_, _, _, _)
\* The loop over name_value_list in AlterUserStmt::execute:
\* [err, passwd, is_superp].
AlterUserOptions(list, i, passwd, is_superp) ==
  IF i > Len(list) THEN [err |-> NoError, passwd |-> passwd, is_superp |-> is_superp]
  ELSE
  LET p == list[i]
      bad(msg) == [err |-> msg, passwd |-> passwd, is_superp |-> is_superp]
  IN
  IF iequals(p.name, "password")
  THEN IF p.value.kind # "StringLiteral" THEN bad(ErrPasswordLiteral)
       ELSE AlterUserOptions(list, i + 1, Ptr(p.value.stringval), is_superp)
  ELSE IF iequals(p.name, "is_super")
  THEN IF p.value.kind # "StringLiteral" THEN bad(ErrIsSuperLiteral)
       ELSE IF iequals(p.value.stringval, "true")
       THEN AlterUserOptions(list, i + 1, passwd, Ptr(TRUE))
       ELSE IF iequals(p.value.stringval, "false")
       THEN AlterUserOptions(list, i + 1, passwd, Ptr(FALSE))
       ELSE bad(ErrIsSuperValue)
  ELSE bad(ErrUserOption)

\* static_cast<SysCatalog&>(catalog) followed by a call of a method of the
\* result: the catalog of the system database is a SysCatalog and the call has
\* its effect; on any other catalog the behaviour is undefined, and the call
\* either runs as it would on a SysCatalog or ends the process.
CallOnSysCatalog(sc, after) ==
  IF sc.currentDB = MAPD_SYSTEM_DB THEN {after}
  ELSE {after, [sc EXCEPT !.calls = after.calls, !.err = ErrCrash]}

\* AlterUserStmt::execute: the set of outcomes.
AlterUserStmt_execute(sc, user_name, name_value_list) ==
  LET o == AlterUserOptions(name_value_list, 1, NullPtr, NullPtr) IN
  IF o.err # NoError THEN {Throws(sc, o.err)}
  ELSE CallOnSysCatalog(sc, alterUser(sc, user_name, o.passwd, o.is_superp))

\* DropUserStmt::execute.
DropUserStmt_execute(sc, user_name) ==
  IF sc.currentDB # MAPD_SYSTEM_DB THEN Throws(sc, ErrDropUserNotSys)
  ELSE dropUser(sc, user_name)

\* The statement has run: one more statement executed in the session.
Executed(sc) == [sc EXCEPT !.executed = @ + 1]

DDLUnchanged == UNCHANGED <<pc, stmt, query, checked, log, err, catalog, ddl, ex>>

CreateDBStmtExecute ==
  /\ syscat.executed < MaxStmts
  /\ \E db_name \in DBNames, name_value_list \in NameValueLists \cup {NullList} :
       syscat' = Executed(CreateDBStmt_execute(syscat, db_name, name_value_list))
  /\ DDLUnchanged

DropDBStmtExecute ==
  /\ syscat.executed < MaxStmts
  /\ \E db_name \in DBNames :
       syscat' = Executed(DropDBStmt_execute(syscat, db_name))
  /\ DDLUnchanged

CreateUserStmtExecute ==
  /\ syscat.executed < MaxStmts
  /\ \E user_name \in UserNames, name_value_list \in NameValueLists :
       syscat' = Executed(CreateUserStmt_execute(syscat, user_name, name_value_list.list))
  /\ DDLUnchanged

AlterUserStmtExecute ==
  /\ syscat.executed < MaxStmts
  /\ \E user_name \in UserNames \cup {MAPD_ROOT_USER}, name_value_list \in NameValueLists :
       \E sc \in AlterUserStmt_execute(syscat, user_name, name_value_list.list) :
         syscat' = Executed(sc)
  /\ DDLUnchanged

DropUserStmtExecute ==
  /\ syscat.executed < MaxStmts
  /\ \E user_name \in UserNames :
       syscat' = Executed(DropUserStmt_execute(syscat, user_name))
  /\ DDLUnchanged

InitDDL ==
  /\ pc = "idle"
  /\ stmt = NewStmt
  /\ query = NewQuery
  /\ checked = {}
  /\ log = <<>>
  /\ err = NoError
  /\ catalog = InitCatalog
  /\ syscat \in {SysCatalogIn(MAPD_SYSTEM_DB), SysCatalogIn("db1")}
  /\ ddl = NoDDL
  /\ ex = NoEx

NextDDL ==
  \/ CreateDBStmtExecute
  \/ DropDBStmtExecute
  \/ CreateUserStmtExecute
  \/ AlterUserStmtExecute
  \/ DropUserStmtExecute

SpecDDL == InitDDL /\ [][NextDDL]_vars

\* C10: every call of a mutating method of the system catalog is made while
\* the session is in the system database, and a user or database statement
\* executed in another database fails.
C10_MutationsOnlyInSystemDB ==
  /\ \A k \in 1..Len(syscat.calls) : syscat.calls[k].db = MAPD_SYSTEM_DB
  /\ (syscat.currentDB # MAPD_SYSTEM_DB /\ syscat.executed > 0) => syscat.err # NoError

(***************************************************************************)
(* CREATE TABLE.  A statement's execute yields [err, calls, catalog]: the  *)
(* error thrown or NoError, the mutating calls it made on the catalog, and *)
(* the catalog it left.                                                    *)
(***************************************************************************)
MaxDDL == 2

ErrTableExists == "Table already exits."
ErrTableConstraint == "Table constraints are not supported yet."
ErrFixedBits ==
  "Must specify number of bits as 8, 16, 24, 32 or 48 as the parameter to fixed-bits encoding."
ErrSparseNotNull == "Cannot do sparse column encoding on a NOT NULL column."
ErrSparseBits ==
  "Must specify number of bits as 8, 16, 24, 32 or 48 as the parameter to sparse-column encoding."
ErrCompression == "Invalid column compression scheme"
ErrFragSizeLiteral == "FRAGMENT_SIZE must be an integer literal."
ErrFragSizePositive == "FRAGMENT_SIZE must be a positive number."
ErrPageSizeLiteral == "PAGE_SIZE must be an integer literal."
ErrPageSizePositive == "PAGE_SIZE must be a positive number."
ErrTableOption == "Invalid CREATE TABLE option.  Should be FRAGMENT_SIZE or PAGE_SIZE."

\* The defaults are defined outside this file; 0, which no option can set,
\* stands for either.
DEFAULT_FRAGMENT_SIZE == 0
DEFAULT_PAGE_SIZE == 0

NoCompress == [null |-> TRUE]
CompressDef(encoding_name, encoding_param) ==
  [null |-> FALSE, encoding_name |-> encoding_name, encoding_param |-> encoding_param]

\* A ColumnDef; cc is "nullptr" when the column has no constraint, otherwise
\* the constraint's notnull.
ColumnDef(column_name, column_type, cc, compression) ==
  [kind |-> "ColumnDef", column_name |-> column_name, column_type |-> column_type,
   cc |-> cc, compression |-> compression]

TableConstraintDef == [kind |-> "UniqueDef"]

\* The remainder of the division of two ints as C++ computes it, for b > 0.
CRem(a, b) == IF a >= 0 THEN a % b ELSE -((-a) % b)

\* The int that a conversion of an int64_t to int leaves: the low 32 bits.
Int32(v) ==
  LET h == v.hi % 65536 IN
  IF h >= 32768 THEN (h - 65536) * 65536 + v.lo ELSE h * 65536 + v.lo

ColumnDescriptor(name, ti, compression, comp_param) ==
  [columnName |-> name, columnId |-> 0, columnType |-> ti, compression |-> compression,
   comp_param |-> comp_param]

\* The body of the loop over table_element_list for one ColumnDef: [err, cd].
ColumnOf(coldef) ==
  LET t == coldef.column_type
      notnull == IF coldef.cc = "nullptr" THEN FALSE ELSE coldef.cc = "notnull"
      ti == TI(t.type, t.dimension, t.scale, notnull)
      compression == coldef.compression
      cd(enc, param) == [err |-> NoError, cd |-> ColumnDescriptor(coldef.column_name, ti, enc, param)]
      bad(msg) == [err |-> msg, cd |-> NullCD]
  IN
  IF compression.null THEN cd("kENCODING_NONE", 0)
  ELSE
  LET comp == compression.encoding_name
      param == compression.encoding_param
  IN
  IF iequals(comp, "fixed")
  THEN IF param = 0 \/ CRem(param, 8) # 0 \/ param > 48 THEN bad(ErrFixedBits)
       ELSE cd("kENCODING_FIXED", param)
  ELSE IF iequals(comp, "rl") THEN cd("kENCODING_RL", 0)
  ELSE IF iequals(comp, "diff") THEN cd("kENCODING_DIFF", 0)
  ELSE IF iequals(comp, "dict") THEN cd("kENCODING_DICT", 0)
  ELSE IF iequals(comp, "sparse")
  THEN IF ti.notnull THEN bad(ErrSparseNotNull)
       ELSE IF param = 0 \/ CRem(param, 8) # 0 \/ param > 48 THEN bad(ErrSparseBits)
       ELSE cd("kENCODING_SPARSE", param)
  ELSE bad(ErrCompression)

RECURSIVE TableElements(_, _, _)
\* The loop over table_element_list: [err, columns].
TableElements(list, i, columns) ==
  IF i > Len(list) THEN [err |-> NoError, columns |-> columns]
  ELSE IF list[i].kind # "ColumnDef" THEN [err |-> ErrTableConstraint, columns |-> columns]
  ELSE LET c == ColumnOf(list[i]) IN
       IF c.err # NoError THEN [err |-> c.err, columns |-> columns]
       ELSE TableElements(list, i + 1, Append(columns, c.cd))

RECURSIVE StorageOptions(_, _, _)
\* The loop over storage_options: [err, td].
StorageOptions(list, i, td) ==
  IF i > Len(list) THEN [err |-> NoError, td |-> td]
  ELSE
  LET p == list[i]
      bad(msg) == [err |-> msg, td |-> td]
  IN
  IF iequals(p.name, "fragment_size")
  THEN IF p.value.kind # "IntLiteral" THEN bad(ErrFragSizeLiteral)
       ELSE IF Int32(p.value.intval) <= 0 THEN bad(ErrFragSizePositive)
       ELSE StorageOptions(list, i + 1, [td EXCEPT !.maxFragRows = Int32(p.value.intval)])
  ELSE IF iequals(p.name, "page_size")
  THEN IF p.value.kind # "IntLiteral" THEN bad(ErrPageSizeLiteral)
       ELSE IF Int32(p.value.intval) <= 0 THEN bad(ErrPageSizePositive)
       ELSE StorageOptions(list, i + 1, [td EXCEPT !.fragPageSize = Int32(p.value.intval)])
  ELSE bad(ErrTableOption)

\* A TableDescriptor as a statement fills it before createTable.
TableDescriptor(tableName, isView, isMaterialized, viewSQL, storageOption, refreshOption, isReady) ==
  [tableName |-> tableName, tableId |-> 0, isView |-> isView,
   isMaterialized |-> isMaterialized, viewSQL |-> viewSQL, storageOption |-> storageOption,
   refreshOption |-> refreshOption, isReady |-> isReady,
   maxFragRows |-> DEFAULT_FRAGMENT_SIZE, fragPageSize |-> DEFAULT_PAGE_SIZE,
   columns |-> <<>>]

NoQuerySpec == [null |-> TRUE]

MaxTableId(cat) ==
  IF cat = {} THEN 0 ELSE CHOOSE m \in {t.tableId : t \in cat} : \A t \in cat : t.tableId <= m

\* Catalog::createTable: the catalog with the table added under the next table
\* id, its columns numbered from 1.
createTable(cat, td, columns) ==
  cat \cup { [td EXCEPT !.tableId = MaxTableId(cat) + 1,
                        !.columns = [k \in 1..Len(columns) |->
                                       [columns[k] EXCEPT !.columnId = k]]] }

\* Catalog::dropTable.
dropTable(cat, td) == cat \ {td}

\* What an execute yields.
Executes(msg, calls, cat) ==
  [err |-> msg, calls |-> calls, catalog |-> cat, parsed |-> FALSE]

\* The name is taken by tables only.
NameTaken_TablesOnly(name) ==
  getMetadataForTable(name) # NullTD /\ ~getMetadataForTable(name).isView

\* catalog.getMetadataForTable(*table) != nullptr.
NameTaken(name) == getMetadataForTable(name) # NullTD

\* CreateTableStmt::execute.
CreateTableStmt_execute(st) ==
  IF NameTaken(st.table)
  THEN IF st.if_not_exists THEN Executes(NoError, <<>>, catalog)
       ELSE Executes(ErrTableExists, <<>>, catalog)
  ELSE
  LET c == TableElements(st.table_element_list, 1, <<>>) IN
  IF c.err # NoError THEN Executes(c.err, <<>>, catalog)
  ELSE
  LET td == TableDescriptor(st.table, FALSE, FALSE, NoQuerySpec, "kDISK", "kMANUAL", TRUE)
      o == IF st.storage_options.null THEN [err |-> NoError, td |-> td]
           ELSE StorageOptions(st.storage_options.list, 1, td)
  IN
  IF o.err # NoError THEN Executes(o.err, <<>>, catalog)
  ELSE Executes(NoError, <<[fn |-> "createTable", td |-> o.td, columns |-> c.columns]>>,
                createTable(catalog, o.td, c.columns))

ErrDropNoTable == "Table does not exist."
ErrDropIsView == "is a view.  Use DROP VIEW."
ErrDropNoView == "View does not exist."
ErrDropIsTable == "is a table.  Use DROP TABLE."

\* DROP TABLE without the test of the object's kind.
DropTableStmt_execute_AnyKind(st) ==
  LET td == getMetadataForTable(st.table) IN
  IF td = NullTD
  THEN IF st.if_exists THEN Executes(NoError, <<>>, catalog)
       ELSE Executes(ErrDropNoTable, <<>>, catalog)
  ELSE Executes(NoError, <<[fn |-> "dropTable", td |-> td]>>, dropTable(catalog, td))

\* DropTableStmt::execute.
DropTableStmt_execute(st) ==
  LET td == getMetadataForTable(st.table) IN
  IF td = NullTD
  THEN IF st.if_exists THEN Executes(NoError, <<>>, catalog)
       ELSE Executes(ErrDropNoTable, <<>>, catalog)
  ELSE IF td.isView THEN Executes(ErrDropIsView, <<>>, catalog)
  ELSE Executes(NoError, <<[fn |-> "dropTable", td |-> td]>>, dropTable(catalog, td))

\* DropViewStmt::execute.
DropViewStmt_execute(st) ==
  LET td == getMetadataForTable(st.view_name) IN
  IF td = NullTD
  THEN IF st.if_exists THEN Executes(NoError, <<>>, catalog)
       ELSE Executes(ErrDropNoView, <<>>, catalog)
  ELSE IF ~td.isView THEN Executes(ErrDropIsTable, <<>>, catalog)
  ELSE Executes(NoError, <<[fn |-> "dropTable", td |-> td]>>, dropTable(catalog, td))

\* The column types, encoding parameters and statements the model draws.  r is
\* a table and v a view of the initial catalog; t and w are new names.
INT_TYPE == [type |-> "INT", dimension |-> 0, scale |-> 0]

EncodingParams == {-8, 0, 8, 12, 40, 48, 56}

CompressDefs ==
  {NoCompress}
    \cup { CompressDef(n, b) : n \in {"FIXED", "Sparse"}, b \in EncodingParams }
    \cup { CompressDef(n, 0) : n \in {"RL", "dict", "zip"} }

PlainColumn == ColumnDef("x", INT_TYPE, "nullptr", NoCompress)

CreateTableStmt(table, if_not_exists, table_element_list, storage_options) ==
  [class |-> "CreateTableStmt", table |-> table, if_not_exists |-> if_not_exists,
   table_element_list |-> table_element_list, storage_options |-> storage_options]

TableStorageOptions ==
  { NullList,
    List(<<NameValueAssign("FRAGMENT_SIZE", IntLiteral(I64(0, 100)))>>),
    List(<<NameValueAssign("fragment_size", IntLiteral(I64(0, 0)))>>),
    List(<<NameValueAssign("Page_Size", IntLiteral(I64(1, 0))),
           NameValueAssign("page_size", StringLiteral("big"))>>),
    List(<<NameValueAssign("colour", StringLiteral("red"))>>) }

\* One column with every encoding on a new name; on every name, a valid list,
\* a list with a bad encoding and a list with a table constraint, with valid
\* and invalid storage options.
CreateTableStmts ==
  { CreateTableStmt("t", FALSE, <<ColumnDef("x", INT_TYPE, cc, comp)>>, NullList) :
      cc \in {"nullptr", "notnull", "null"}, comp \in CompressDefs }
  \cup
  { CreateTableStmt(table, ine, l, so) :
      table \in {"r", "v", "t"}, ine \in BOOLEAN,
      l \in { <<PlainColumn>>,
              <<PlainColumn, ColumnDef("y", INT_TYPE, "notnull", CompressDef("FIXED", 12))>>,
              <<TableConstraintDef>> },
      so \in TableStorageOptions }

DropTableStmt(table, if_exists) ==
  [class |-> "DropTableStmt", table |-> table, if_exists |-> if_exists]

DropViewStmt(view_name, if_exists) ==
  [class |-> "DropViewStmt", view_name |-> view_name, if_exists |-> if_exists]

DropNames == {"r", "v", "t", "w"}

\* The statement st has executed with the outcome r.
Executed_DDL(st, r) ==
  /\ ddl' = [class |-> st.class, executed |-> ddl.executed + 1, err |-> r.err,
             calls |-> r.calls, stmt |-> st, before |-> catalog, parsed |-> r.parsed]
  /\ catalog' = r.catalog
  /\ UNCHANGED <<pc, stmt, query, checked, log, err, syscat, ex>>

CreateTableStmtExecute ==
  /\ ddl.executed < MaxDDL
  /\ \E st \in CreateTableStmts : Executed_DDL(st, CreateTableStmt_execute(st))

DropTableStmtExecute ==
  /\ ddl.executed < MaxDDL
  /\ \E table \in DropNames, if_exists \in BOOLEAN :
       Executed_DDL(DropTableStmt(table, if_exists),
                    DropTableStmt_execute(DropTableStmt(table, if_exists)))

DropViewStmtExecute ==
  /\ ddl.executed < MaxDDL
  /\ \E view_name \in DropNames, if_exists \in BOOLEAN :
       Executed_DDL(DropViewStmt(view_name, if_exists),
                    DropViewStmt_execute(DropViewStmt(view_name, if_exists)))

(***************************************************************************)
(* CREATE VIEW and REFRESH MATERIALIZED VIEW.                              *)
(***************************************************************************)
ErrViewExists == "Table or View already exists."
ErrStorageLiteral == "Storage option must be a string literal."
ErrStorageOption == "Invalid storage option. Should be GPU, MIC, CPU or DISK."
ErrRefreshLiteral == "Refresh option must be a string literal."
ErrRefreshOption == "Invalid refresh option. Should be AUTO, MANUAL or IMMEDIATE."
ErrMatviewOption == "Invalid CREATE MATERIALIZED VIEW option.  Should be STORAGE or REFRESH."
ErrColumnCount ==
  "Number of column names does not match the number of expressions in SELECT clause."
ErrNoColumnName == "Must specify a column name for expression."
ErrRefreshNoView == "Materialied view does not exist."
ErrRefreshIsTable == "is a table not a materialized view."
ErrRefreshNotMat == "is not a materialized view."
ErrSyntax == "Internal Error: syntax error at: "
ErrPlan == "the analysis or the planning of the view's query failed"

QuerySpec(is_distinct, select_clause, from_clause, where_clause, groupby_clause, having_clause) ==
  [null |-> FALSE, is_distinct |-> is_distinct, select_clause |-> select_clause,
   from_clause |-> from_clause, where_clause |-> where_clause,
   groupby_clause |-> groupby_clause, having_clause |-> having_clause]

\* The clause analyzers from a set of outcomes on: those that threw stay.
Then(rs, f(_)) == UNION { IF r.err # NoError THEN {r} ELSE f(r.q) : r \in rs }

\* QuerySpec::analyze as one call: the set of [err, q].
QuerySpec_analyze(qs, q) ==
  LET from(q0) == {analyze_from_clause(qs.from_clause, [q0 EXCEPT !.is_distinct = qs.is_distinct])}
      select(q1) == analyze_select_clause(qs.select_clause, q1)
      where(q2) == analyze_where_clause(qs.where_clause, q2)
      groupby(q3) == { [err |-> g.err, q |-> g.q] : g \in analyze_group_by(qs.groupby_clause, q3) }
      having(q4) == analyze_having_clause(qs.having_clause, q4)
  IN Then(Then(Then(Then(from(q), select), where), groupby), having)

RECURSIVE MatviewOptions(_, _, _, _)
\* The loop over matview_options: [err, storage, refresh].
MatviewOptions(list, i, matview_storage, matview_refresh) ==
  IF i > Len(list)
  THEN [err |-> NoError, storage |-> matview_storage, refresh |-> matview_refresh]
  ELSE
  LET p == list[i]
      bad(msg) == [err |-> msg, storage |-> matview_storage, refresh |-> matview_refresh]
  IN
  IF iequals(p.name, "storage")
  THEN IF p.value.kind # "StringLiteral" THEN bad(ErrStorageLiteral)
       ELSE LET str == p.value.stringval IN
            IF iequals(str, "gpu") \/ iequals(str, "mic")
            THEN MatviewOptions(list, i + 1, "kGPU", matview_refresh)
            ELSE IF iequals(str, "cpu") THEN MatviewOptions(list, i + 1, "kCPU", matview_refresh)
            ELSE IF iequals(str, "disk") THEN MatviewOptions(list, i + 1, "kDISK", matview_refresh)
            ELSE bad(ErrStorageOption)
  ELSE IF iequals(p.name, "refresh")
  THEN IF p.value.kind # "StringLiteral" THEN bad(ErrRefreshLiteral)
       ELSE LET str == p.value.stringval IN
            IF iequals(str, "auto") THEN MatviewOptions(list, i + 1, matview_storage, "kAUTO")
            ELSE IF iequals(str, "manual")
            THEN MatviewOptions(list, i + 1, matview_storage, "kMANUAL")
            ELSE IF iequals(str, "immediate")
            THEN MatviewOptions(list, i + 1, matview_storage, "kIMMEDIATE")
            ELSE bad(ErrRefreshOption)
  ELSE bad(ErrMatviewOption)

\* The targets renamed by position from column_list.
Renamed(tlist, column_list) ==
  [k \in 1..Len(tlist) |-> [tlist[k] EXCEPT !.resname = column_list[k]]]

\* The view's columns without the test of the result names.
ViewColumns_Unchecked(tlist) ==
  [err |-> NoError,
   columns |-> [k \in 1..Len(tlist) |->
                  ColumnDescriptor(tlist[k].resname, tlist[k].expr.type, "kENCODING_NONE", 0)]]

\* The loop that builds the view's columns from the targets: [err, columns].
ViewColumns(tlist) ==
  IF \E k \in 1..Len(tlist) : tlist[k].resname = ""
  THEN [err |-> ErrNoColumnName, columns |-> <<>>]
  ELSE [err |-> NoError,
        columns |-> [k \in 1..Len(tlist) |->
                       ColumnDescriptor(tlist[k].resname, tlist[k].expr.type,
                                        "kENCODING_NONE", 0)]]

\* CreateViewStmt::execute after the analysis of the query returned a.
CreateViewAnalyzed(st, o, a) ==
  IF a.err # NoError THEN Executes(a.err, <<>>, catalog)
  ELSE IF ~st.column_list.null /\ Len(st.column_list.list) # Len(a.q.targetlist)
  THEN Executes(ErrColumnCount, <<>>, catalog)
  ELSE
  LET tlist == IF st.column_list.null THEN a.q.targetlist
               ELSE Renamed(a.q.targetlist, st.column_list.list)
      c == ViewColumns(tlist)
      td == TableDescriptor(st.view_name, TRUE, st.is_materialized, st.query, o.storage,
                            o.refresh, ~st.is_materialized)
  IN IF c.err # NoError THEN Executes(c.err, <<>>, catalog)
     ELSE Executes(NoError, <<[fn |-> "createTable", td |-> td, columns |-> c.columns]>>,
                   createTable(catalog, td, c.columns))

\* CreateViewStmt::execute without the test of the name.
CreateViewStmt_execute_Unchecked(st) ==
  LET o == IF st.matview_options.null
           THEN [err |-> NoError, storage |-> "kDISK", refresh |-> "kMANUAL"]
           ELSE MatviewOptions(st.matview_options.list, 1, "kDISK", "kMANUAL")
  IN IF o.err # NoError THEN {Executes(o.err, <<>>, catalog)}
     ELSE { CreateViewAnalyzed(st, o, a) : a \in QuerySpec_analyze(st.query, NewQuery) }

\* CreateViewStmt::execute: the set of outcomes.
CreateViewStmt_execute(st) ==
  IF getMetadataForTable(st.view_name) # NullTD
  THEN IF st.if_not_exists THEN {Executes(NoError, <<>>, catalog)}
       ELSE {Executes(ErrViewExists, <<>>, catalog)}
  ELSE
  LET o == IF st.matview_options.null
           THEN [err |-> NoError, storage |-> "kDISK", refresh |-> "kMANUAL"]
           ELSE MatviewOptions(st.matview_options.list, 1, "kDISK", "kMANUAL")
  IN IF o.err # NoError THEN {Executes(o.err, <<>>, catalog)}
     ELSE { CreateViewAnalyzed(st, o, a) : a \in QuerySpec_analyze(st.query, NewQuery) }

\* REFRESH without the test of isMaterialized.
RefreshViewStmt_execute_AnyView(st) ==
  LET td == getMetadataForTable(st.view_name) IN
  IF td = NullTD THEN {Executes(ErrRefreshNoView, <<>>, catalog)}
  ELSE IF ~td.isView THEN {Executes(ErrRefreshIsTable, <<>>, catalog)}
  ELSE { [Executes(e, <<>>, catalog) EXCEPT !.parsed = TRUE] : e \in {ErrSyntax, NoError} }

\* RefreshViewStmt::execute: the set of outcomes.  The parser, the tree it
\* returns for the stored text and the optimizer are outside this file: after
\* the three checks the statement parses, and then either fails or returns,
\* with the catalog, which the analysis takes as const, as it was.
RefreshViewStmt_execute(st) ==
  LET td == getMetadataForTable(st.view_name) IN
  IF td = NullTD THEN {Executes(ErrRefreshNoView, <<>>, catalog)}
  ELSE IF ~td.isView THEN {Executes(ErrRefreshIsTable, <<>>, catalog)}
  ELSE IF ~td.isMaterialized THEN {Executes(ErrRefreshNotMat, <<>>, catalog)}
  ELSE { [Executes(e, <<>>, catalog) EXCEPT !.parsed = TRUE] :
           e \in {ErrSyntax, ErrPlan, NoError} }

CreateViewStmt(view_name, if_not_exists, is_materialized, matview_options, column_list, query_spec) ==
  [class |-> "CreateViewStmt", view_name |-> view_name, if_not_exists |-> if_not_exists,
   is_materialized |-> is_materialized, matview_options |-> matview_options,
   column_list |-> column_list, query |-> query_spec]

RefreshViewStmt(view_name) == [class |-> "RefreshViewStmt", view_name |-> view_name]

\* SELECT select_clause FROM r.
SelectFrom(table, select_clause) ==
  QuerySpec(FALSE, List(select_clause), <<TableRef(table, NoName)>>, NoPExpr, NullList, NoPExpr)

\* One and two named targets, a target without a name, and a failing query.
ViewQueries ==
  { SelectFrom("r", <<SelectEntry(ColumnRef(NoName, "a"), NoName)>>),
    SelectFrom("r", <<SelectEntry(ColumnRef(NoName, "b"), NoName),
                      SelectEntry(ColumnRef(NoName, "a"), NoName)>>),
    SelectFrom("r", <<SelectEntry(ColumnRef(NoName, "a"), NoName),
                      SelectEntry(IntLiteral(I64(0, 1)), NoName)>>),
    SelectFrom("x", <<SelectEntry(ColumnRef(NoName, "a"), NoName)>>) }

ViewColumnLists == { NullList, List(<<"p">>), List(<<"p", "q">>) }

MatviewOptionLists ==
  { NullList,
    List(<<NameValueAssign("STORAGE", StringLiteral("GPU")),
           NameValueAssign("Refresh", StringLiteral("Immediate"))>>),
    List(<<NameValueAssign("storage", IntLiteral(I64(0, 1)))>>),
    List(<<NameValueAssign("storage", StringLiteral("tape"))>>),
    List(<<NameValueAssign("refresh", StringLiteral("never"))>>),
    List(<<NameValueAssign("colour", StringLiteral("red"))>>) }

\* On the new name w every column list with every query; on w every list of
\* options; on the names of a table and of a view, a view that would fail.
CreateViewStmts ==
  { CreateViewStmt("w", FALSE, m, NullList, cl, q) :
      m \in BOOLEAN, cl \in ViewColumnLists, q \in ViewQueries }
  \cup
  { CreateViewStmt("w", FALSE, TRUE, mo, NullList,
                   SelectFrom("r", <<SelectEntry(ColumnRef(NoName, "a"), NoName)>>)) :
      mo \in MatviewOptionLists }
  \cup
  { CreateViewStmt(n, ine, TRUE, List(<<NameValueAssign("colour", StringLiteral("red"))>>),
                   List(<<"p", "q">>),
                   SelectFrom("x", <<SelectEntry(ColumnRef(NoName, "a"), NoName)>>)) :
      n \in {"r", "v"}, ine \in BOOLEAN }

CreateViewStmtExecute ==
  /\ ddl.executed < MaxDDL
  /\ \E st \in CreateViewStmts : \E r \in CreateViewStmt_execute(st) : Executed_DDL(st, r)

RefreshViewStmtExecute ==
  /\ ddl.executed < MaxDDL
  /\ \E view_name \in DropNames :
       \E r \in RefreshViewStmt_execute(RefreshViewStmt(view_name)) :
         Executed_DDL(RefreshViewStmt(view_name), r)

NextTables ==
  \/ CreateTableStmtExecute
  \/ DropTableStmtExecute
  \/ CreateViewStmtExecute
  \/ DropViewStmtExecute
  \/ RefreshViewStmtExecute

SpecTables == Init /\ [][NextTables]_vars

\* The object named n in the catalog cat, or NullTD.
Named(cat, n) ==
  IF \E td \in cat : td.tableName = n THEN CHOOSE td \in cat : td.tableName = n ELSE NullTD

\* C11: CREATE TABLE on a name the catalog holds leaves the catalog as it was
\* and makes no call; it returns with IF NOT EXISTS and fails with the
\* already-exists error without it, whatever its columns and options are.
C11_CreateExistingTable ==
  (ddl.class = "CreateTableStmt" /\ Named(ddl.before, ddl.stmt.table) # NullTD) =>
    /\ catalog = ddl.before
    /\ ddl.calls = <<>>
    /\ ddl.err = IF ddl.stmt.if_not_exists THEN NoError ELSE ErrTableExists

\* CREATE TABLE IF NOT EXISTS on the name of a view, with a table constraint
\* and an invalid storage option, has returned.
C11_Witness ==
  /\ ddl.class = "CreateTableStmt"
  /\ Named(ddl.before, ddl.stmt.table) # NullTD
  /\ Named(ddl.before, ddl.stmt.table).isView
  /\ ddl.stmt.if_not_exists
  /\ ddl.stmt.table_element_list = <<TableConstraintDef>>
  /\ ~ddl.stmt.storage_options.null
  /\ ddl.err = NoError

\* The bits that FIXED and SPARSE take.
EncodingBits == {8, 16, 24, 32, 40, 48}

\* C12: a CREATE TABLE of one column with FIXED or SPARSE encoding on a new
\* name creates the table exactly when the bits are one of 8, 16, 24, 32, 40,
\* 48 (and, for SPARSE, the column is nullable), and then stores the column
\* with that encoding and comp_param = bits; otherwise it fails and makes no
\* call.
C12_EncodingBits ==
  (/\ ddl.class = "CreateTableStmt"
   /\ Named(ddl.before, ddl.stmt.table) = NullTD
   /\ Len(ddl.stmt.table_element_list) = 1
   /\ ddl.stmt.table_element_list[1].kind = "ColumnDef"
   /\ ~ddl.stmt.table_element_list[1].compression.null
   /\ ToLower(ddl.stmt.table_element_list[1].compression.encoding_name) \in {"fixed", "sparse"}
   /\ ddl.stmt.storage_options.null) =>
    LET coldef == ddl.stmt.table_element_list[1]
        enc == ToLower(coldef.compression.encoding_name)
        bits == coldef.compression.encoding_param
        accepted == bits \in EncodingBits /\ (enc = "sparse" => coldef.cc # "notnull")
    IN IF accepted
       THEN /\ ddl.err = NoError
            /\ Len(ddl.calls) = 1
            /\ ddl.calls[1].columns[1].compression
                 = (IF enc = "fixed" THEN "kENCODING_FIXED" ELSE "kENCODING_SPARSE")
            /\ ddl.calls[1].columns[1].comp_param = bits
       ELSE ddl.err # NoError /\ ddl.calls = <<>> /\ catalog = ddl.before

\* C13: DROP TABLE and DROP VIEW on a missing name return without a call with
\* IF EXISTS and fail without it; on an object of the other kind they fail and
\* the object stays; dropTable is called, once, exactly when the object
\* exists and is of the statement's kind, and removes it.
C13_DropRespectsKind ==
  ddl.class \in {"DropTableStmt", "DropViewStmt"} =>
    LET name == IF ddl.class = "DropTableStmt" THEN ddl.stmt.table ELSE ddl.stmt.view_name
        td == Named(ddl.before, name)
    IN IF td = NullTD
       THEN /\ catalog = ddl.before
            /\ ddl.calls = <<>>
            /\ ddl.err = NoError <=> ddl.stmt.if_exists
       ELSE IF td.isView # (ddl.class = "DropViewStmt")
       THEN /\ ddl.err # NoError
            /\ ddl.calls = <<>>
            /\ catalog = ddl.before
       ELSE /\ ddl.err = NoError
            /\ ddl.calls = <<[fn |-> "dropTable", td |-> td]>>
            /\ catalog = ddl.before \ {td}

\* DROP TABLE IF EXISTS on a view has failed and the view is in the catalog.
C13_Witness ==
  /\ ddl.class = "DropTableStmt"
  /\ ddl.stmt.if_exists
  /\ Named(ddl.before, ddl.stmt.table) # NullTD
  /\ Named(ddl.before, ddl.stmt.table).isView
  /\ ddl.err = ErrDropIsView
  /\ Named(catalog, ddl.stmt.table) = Named(ddl.before, ddl.stmt.table)

\* The analysis of the query of the CREATE VIEW statement that has executed.
ViewAnalysis == CHOOSE a \in QuerySpec_analyze(ddl.stmt.query, NewQuery) : TRUE

\* The names of the view's columns: from the column list by position if there
\* is one, else the targets' result names.
ViewColumnNames ==
  LET tlist == ViewAnalysis.q.targetlist
      cl == ddl.stmt.column_list
  IN [k \in 1..Len(tlist) |-> IF cl.null THEN tlist[k].resname ELSE cl.list[k]]

\* C14: CREATE VIEW on a new name fails when the column list and the targets
\* differ in length, and persists a view only if every target has, after the
\* renaming, a non-empty name; the descriptor persisted has one column per
\* target in target order, isView = TRUE and isReady = ~is_materialized.
C14_ViewPersisted ==
  (ddl.class = "CreateViewStmt" /\ Named(ddl.before, ddl.stmt.view_name) = NullTD) =>
    LET tlist == ViewAnalysis.q.targetlist
        cl == ddl.stmt.column_list
        mismatch == ViewAnalysis.err = NoError /\ ~cl.null /\ Len(cl.list) # Len(tlist)
    IN /\ mismatch => ddl.err # NoError /\ ddl.calls = <<>>
       /\ ddl.calls = <<>> => catalog = ddl.before
       /\ ddl.calls # <<>> =>
            /\ ddl.err = NoError /\ Len(ddl.calls) = 1
            /\ ViewAnalysis.err = NoError /\ ~mismatch
            /\ \A k \in 1..Len(tlist) : ViewColumnNames[k] # ""
            /\ Len(ddl.calls[1].columns) = Len(tlist)
            /\ \A k \in 1..Len(tlist) :
                 /\ ddl.calls[1].columns[k].columnName = ViewColumnNames[k]
                 /\ ddl.calls[1].columns[k].columnType = tlist[k].expr.type
            /\ ddl.calls[1].td.isView
            /\ ddl.calls[1].td.isMaterialized = ddl.stmt.is_materialized
            /\ ddl.calls[1].td.isReady = ~ddl.stmt.is_materialized
            /\ Named(catalog, ddl.stmt.view_name).isView
            /\ Named(catalog, ddl.stmt.view_name).isReady = ~ddl.stmt.is_materialized
            /\ Len(Named(catalog, ddl.stmt.view_name).columns) = Len(tlist)

\* A materialized view over a named and an unnamed target has been created
\* with a list of two column names.
C14_Witness ==
  /\ ddl.class = "CreateViewStmt"
  /\ ddl.stmt.is_materialized
  /\ ~ddl.stmt.column_list.null
  /\ Len(ddl.calls) = 1
  /\ \E k \in 1..Len(ViewAnalysis.q.targetlist) : ViewAnalysis.q.targetlist[k].resname = ""
  /\ ddl.calls[1].columns[2].columnName = "q"
  /\ ~Named(catalog, "w").isReady

\* C15: REFRESH reaches the parser exactly when the name is that of a
\* materialized view, fails otherwise, and in every case makes no call on the
\* catalog and leaves it as it was.
C15_RefreshOnlyMaterialized ==
  ddl.class = "RefreshViewStmt" =>
    LET td == Named(ddl.before, ddl.stmt.view_name) IN
    /\ ddl.parsed <=> (td # NullTD /\ td.isView /\ td.isMaterialized)
    /\ ~ddl.parsed => ddl.err # NoError
    /\ ddl.calls = <<>>
    /\ catalog = ddl.before

\* A materialized view has been refreshed.
C15_Witness ==
  /\ ddl.class = "RefreshViewStmt"
  /\ ddl.parsed
  /\ ddl.err = NoError
  /\ Named(catalog, ddl.stmt.view_name).isMaterialized

(***************************************************************************)
(* Analyses of single parse nodes and statements, each on a query of its   *)
(* own.  ex records the node, the query it was analyzed into and the       *)
(* outcome; a behaviour holds one analysis.                                *)
(***************************************************************************)
Analyzed(e, q, r) ==
  /\ ex' = [op |-> "analyze", node |-> e, before |-> q, result |-> r]
  /\ UNCHANGED <<pc, stmt, query, checked, log, err, catalog, syscat, ddl>>

\* The values around the ends of the 16-bit and the 32-bit range, and
\* 9999999999 = 152587 * 2^16 + 58367.
IntLiteralValues ==
  { I64(hi, lo) : hi \in {-32769, -32768, -2, -1, 0, 1, 32767, 32768, 152587},
                  lo \in {0, 1, 32767, 32768, 58367, 65535} }

IntLiteralAnalyze ==
  /\ ex = NoEx
  /\ \E v \in IntLiteralValues :
       \E r \in Expr_analyze(IntLiteral(v), NewQuery) : Analyzed(IntLiteral(v), NewQuery, r)

InRange16(v) == v.hi \in {-1, 0} /\ (v.hi * 65536 + v.lo) \in -32768..32767

InRange32(v) == v.hi \in -32768..32767

\* C16: an integer literal is analyzed to a non-null constant that holds the
\* literal's value, of type SMALLINT exactly when the value is in
\* [-2^15, 2^15 - 1], INT exactly when it is outside that range and in
\* [-2^31, 2^31 - 1], and BIGINT exactly when it is outside both.
C16_IntLiteralNarrowest ==
  (ex.op = "analyze" /\ ex.node.kind = "IntLiteral") =>
    LET v == ex.node.intval
        c == ex.result.expr
    IN /\ ex.result.err = NoError
       /\ c.node = "Constant" /\ ~c.is_null /\ c.constval = v
       /\ (c.type.type = "SMALLINT") <=> InRange16(v)
       /\ (c.type.type = "INT") <=> (~InRange16(v) /\ InRange32(v))
       /\ (c.type.type = "BIGINT") <=> ~InRange32(v)

\* 32767, the last value of the 16-bit range, has been analyzed to a SMALLINT.
C16_Witness ==
  /\ ex.op = "analyze" /\ ex.node.kind = "IntLiteral"
  /\ ex.node.intval = INT16_MAX
  /\ ex.result.expr.type.type = "SMALLINT"

\* UpdateStmt::analyze and DeleteStmt::analyze: the throw is their only statement.
UpdateStmt_analyze(q) == Fail(ErrUpdate, q)

DeleteStmt_analyze(q) == Fail(ErrDelete, q)

\* A query whose FROM clause r has been analyzed, with no aggregate or with
\* two aggregates counted so far.
QueryOverR == analyze_from_clause(<<TableRef("r", NoName)>>, NewQuery).q

QueriesBefore == {QueryOverR, [QueryOverR EXCEPT !.num_aggs = 2]}

SubqueryOverR ==
  QuerySpec(FALSE, List(<<SelectEntry(ColumnRef(NoName, "a"), NoName)>>),
            <<TableRef("r", NoName)>>, NoPExpr, NullList, NoPExpr)

\* The parse trees analyzed: leaves, then unary operators, function calls and
\* IN (subquery) over leaves, then the same and binary operators over those.
LeafExprs ==
  {IntLiteral(I64(0, 1)), NullLiteral, ColumnRef(NoName, "a"), UserLiteral,
   SubqueryExpr(SubqueryOverR), ExistsExpr(SubqueryOverR)}

FunctionNames == {"SUM", "min", "COUNT", "median"}

UnaryOver(S) == { OperExpr(op, e, NoPExpr) : op \in {"-", "NOT"}, e \in S }

FunctionsOver(S) == { FunctionRef(n, FALSE, e) : n \in FunctionNames, e \in S }

InSubqueryOver(S) == { InSubquery(FALSE, e, SubqueryExpr(SubqueryOverR)) : e \in S }

BinaryOver(S, T) == { OperExpr(op, l, r) : op \in {"+", "="}, l \in S, r \in T }

Exprs1 == LeafExprs \cup UnaryOver(LeafExprs) \cup FunctionsOver(LeafExprs)
            \cup InSubqueryOver(LeafExprs)

Exprs2 == Exprs1 \cup UnaryOver(Exprs1) \cup FunctionsOver(Exprs1)
            \cup BinaryOver(Exprs1, LeafExprs \cup FunctionsOver(LeafExprs))

ExprAnalyze ==
  /\ ex = NoEx
  /\ \E e \in Exprs2, q \in QueriesBefore :
       \E r \in Expr_analyze(e, q) : Analyzed(e, q, r)

UpdateStmtAnalyze ==
  /\ ex = NoEx
  /\ \E q \in QueriesBefore : Analyzed([kind |-> "UpdateStmt"], q, UpdateStmt_analyze(q))

DeleteStmtAnalyze ==
  /\ ex = NoEx
  /\ \E q \in QueriesBefore : Analyzed([kind |-> "DeleteStmt"], q, DeleteStmt_analyze(q))

RECURSIVE HasUnsupported(_)
\* The parse tree holds a USER literal, a subquery, EXISTS or IN (subquery).
HasUnsupported(e) ==
  CASE e.kind \in {"UserLiteral", "SubqueryExpr", "ExistsExpr", "InSubquery"} -> TRUE
    [] e.kind = "OperExpr" ->
         HasUnsupported(e.left) \/ (e.right # NoPExpr /\ HasUnsupported(e.right))
    [] e.kind = "FunctionRef" -> e.arg # NoPExpr /\ HasUnsupported(e.arg)
    [] OTHER -> FALSE

\* C17: the analysis of a parse tree that holds a USER literal, a subquery,
\* EXISTS or IN (subquery) fails, and the analysis of an UPDATE or a DELETE
\* statement fails and leaves the query it was given as it was.
C17_UnsupportedAlwaysFail ==
  ex.op = "analyze" =>
    /\ (ex.node.kind \in {"UpdateStmt", "DeleteStmt"}) =>
         (ex.result.err # NoError /\ ex.result.q = ex.before)
    /\ (ex.node.kind \notin {"UpdateStmt", "DeleteStmt", "IntLiteral", "FixedPtLiteral",
                              "QuerySpec", "UnionQuery"}
          /\ HasUnsupported(ex.node)) =>
         ex.result.err # NoError

\* A comparison of a column with a subquery has been analyzed, and failed in
\* the subquery.
C17_Witness ==
  /\ ex.op = "analyze" /\ ex.node.kind = "OperExpr"
  /\ ex.node.left.kind = "ColumnRef"
  /\ ex.node.right.kind = "SubqueryExpr"
  /\ ex.result.err = ErrSubquery

\* Digit strings as the sequences of their characters.
DigitChar(d) ==
  CASE d = 0 -> "0" [] d = 1 -> "1" [] d = 2 -> "2" [] d = 3 -> "3" [] d = 4 -> "4"
    [] d = 5 -> "5" [] d = 6 -> "6" [] d = 7 -> "7" [] d = 8 -> "8" [] d = 9 -> "9"

String(digits) == [i \in 1..Len(digits) |-> DigitChar(digits[i])]

\* The integer parts and the fractions of the literals analyzed: short ones,
\* ones with leading zeros, 18 digits around INT64_MAX / 10, and none.
IntegerParts ==
  { <<>>, <<0>>, <<1>>, <<1, 2>>, <<0, 0, 7>>,
    <<9, 2, 2, 3, 3, 7, 2, 0, 3, 6, 8, 5, 4, 7, 7, 5, 8, 0>>,
    <<9, 9, 9, 9, 9, 9, 9, 9, 9, 9, 9, 9, 9, 9, 9, 9, 9, 9>>,
    <<9, 2, 2, 3, 3, 7, 2, 0, 3, 6, 8, 5, 4, 7, 7, 5, 8, 0, 7>> }

Fractions ==
  { <<>>, <<0>>, <<5>>, <<7>>, <<8>>, <<9>>, <<0, 5>>, <<2, 5>>, <<5, 0>>,
    <<2, 2, 3, 3, 7, 2, 0, 3, 6, 8, 5, 4, 7, 7, 5, 8, 0, 7>>,
    <<2, 2, 3, 3, 7, 2, 0, 3, 6, 8, 5, 4, 7, 7, 5, 8, 0, 8>> }

FixedPtLiterals ==
  { FixedPtLiteral(String(b) \o <<".">> \o String(a)) : b \in IntegerParts, a \in Fractions }
    \cup { FixedPtLiteral(String(<<1, 2>>)) }

FixedPtLiteralAnalyze ==
  /\ ex = NoEx
  /\ \E e \in FixedPtLiterals :
       \E r \in Expr_analyze(e, NewQuery) : Analyzed(e, NewQuery, r)

\* The digits before and after the first dot of a literal.
DigitsBefore(s) == [i \in 1..find_first_of(s, ".") |-> DigitOf(s[i])]

DigitsAfter(s) ==
  LET dot == find_first_of(s, ".") IN [i \in 1..(Len(s) - dot - 1) |-> DigitOf(s[dot + 1 + i])]

\* A literal B.A of at most 20 characters with digits on both sides of the dot.
WellFormedFixedPt(s) ==
  /\ Len(s) <= 20
  /\ find_first_of(s, ".") \in 1..(Len(s) - 2)

\* C20: a fixed-point literal B.A of at most 20 characters is analyzed to a
\* NUMERIC constant whose scale is the length of A, whose dimension is the
\* length of B plus the length of A, and whose value is the integer written
\* by the digits of B followed by the digits of A.
C20_FixedPtValue ==
  (ex.op = "analyze" /\ ex.node.kind = "FixedPtLiteral"
     /\ WellFormedFixedPt(ex.node.fixedptval)) =>
    LET B == DigitsBefore(ex.node.fixedptval)
        A == DigitsAfter(ex.node.fixedptval)
        c == ex.result.expr
    IN /\ ex.result.err = NoError
       /\ c.node = "Constant" /\ ~c.is_null
       /\ c.type.type = "NUMERIC"
       /\ c.type.scale = Len(A)
       /\ c.type.dimension = Len(B) + Len(A)
       /\ c.constval = Int64(FALSE, Norm(B \o A))

(***************************************************************************)
(* Query expressions: a QuerySpec or a UNION of two query expressions.     *)
(***************************************************************************)
UnionQuery(is_unionall, left, right) ==
  [union |-> TRUE, is_unionall |-> is_unionall, left |-> left, right |-> right]

IsUnion(qe) == "union" \in DOMAIN qe

\* UnionQuery::analyze with the right side counting on from the left side's
\* num_aggs.
UnionRightQuery_CountingOn(left_query) == [NewQuery EXCEPT !.num_aggs = left_query.num_aggs]

\* Line 573: the query the right side is analyzed into.
UnionRightQuery(left_query) == NewQuery

RECURSIVE QueryExpr_analyze(_, _)
\* QueryExpr::analyze, dispatched on the class: the set of [err, q].
QueryExpr_analyze(qe, q) ==
  IF ~IsUnion(qe) THEN QuerySpec_analyze(qe, q)
  ELSE UNION {
    IF l.err # NoError THEN {l}
    ELSE { IF r.err # NoError THEN Fail(r.err, l.q)
           ELSE Ok([l.q EXCEPT !.next_query = r.q, !.is_unionall = qe.is_unionall])
           : r \in QueryExpr_analyze(qe.right, UnionRightQuery(l.q)) }
    : l \in QueryExpr_analyze(qe.left, q) }

\* Targets, WHERE, GROUP BY and HAVING with and without aggregates.
Col(c) == ColumnRef(NoName, c)

Agg(n, e) == FunctionRef(n, FALSE, e)

One == IntLiteral(I64(0, 1))

AggSelectClauses ==
  { <<SelectEntry(Col("a"), NoName)>>,
    <<SelectEntry(Agg("COUNT", Col("a")), NoName)>>,
    <<SelectEntry(Agg("SUM", Agg("COUNT", Col("a"))), NoName)>>,
    <<SelectEntry(Col("a"), NoName), SelectEntry(Agg("min", Col("b")), NoName)>>,
    <<SelectEntry(FunctionRef("COUNT", FALSE, NoPExpr), NoName),
      SelectEntry(OperExpr("+", Agg("SUM", Col("a")), Agg("MAX", Col("b"))), NoName)>>,
    <<SelectEntry(Agg("MAX", NullLiteral), NoName)>>,
    <<SelectEntry(Agg("median", Col("a")), NoName)>> }

AggWhereClauses == {NoPExpr, OperExpr("=", Agg("COUNT", Col("a")), One)}

AggGroupByClauses == {NullList, List(<<Col("a")>>), List(<<Agg("COUNT", Col("b"))>>)}

AggHavingClauses == {NoPExpr, OperExpr("=", Agg("SUM", Col("a")), One)}

AggQuerySpecs ==
  { QuerySpec(FALSE, List(s), <<TableRef("r", NoName)>>, w, g, h) :
      s \in AggSelectClauses, w \in AggWhereClauses, g \in AggGroupByClauses,
      h \in AggHavingClauses }

UnionSides ==
  { QuerySpec(FALSE, List(s), <<TableRef("r", NoName)>>, NoPExpr, NullList, h) :
      s \in AggSelectClauses, h \in AggHavingClauses }

UnionQueries == { UnionQuery(FALSE, l, r) : l \in UnionSides, r \in UnionSides }

QueryExprNode(qe) == [kind |-> "QueryExpr", query_expr |-> qe]

QuerySpecAnalyze ==
  /\ ex = NoEx
  /\ \E qe \in AggQuerySpecs :
       \E r \in QueryExpr_analyze(qe, NewQuery) : Analyzed(QueryExprNode(qe), NewQuery, r)

UnionQueryAnalyze ==
  /\ ex = NoEx
  /\ \E qe \in UnionQueries :
       \E r \in QueryExpr_analyze(qe, NewQuery) : Analyzed(QueryExprNode(qe), NewQuery, r)

NextAnalyze ==
  \/ IntLiteralAnalyze
  \/ FixedPtLiteralAnalyze
  \/ ExprAnalyze
  \/ UpdateStmtAnalyze
  \/ DeleteStmtAnalyze
  \/ QuerySpecAnalyze
  \/ UnionQueryAnalyze

SpecAnalyze == Init /\ [][NextAnalyze]_vars

RECURSIVE NodesOf(_)
\* The nodes of an analyzed expression.
NodesOf(e) ==
  CASE e.node = "nullptr" -> {}
    [] e.node = "UOper" -> {e} \cup NodesOf(e.operand)
    [] e.node = "BinOper" -> {e} \cup NodesOf(e.left) \cup NodesOf(e.right)
    [] e.node = "AggExpr" -> {e} \cup NodesOf(e.arg)
    [] OTHER -> {e}

RECURSIVE NodesOfQuery(_)
NodesOfQuery(q) ==
  UNION ( { NodesOf(q.targetlist[i].expr) : i \in 1..Len(q.targetlist) }
          \cup { NodesOf(q.group_by.list[i]) : i \in 1..Len(q.group_by.list) }
          \cup { NodesOf(q.where_predicate), NodesOf(q.having_predicate) }
          \cup { IF q.next_query = NullQuery THEN {} ELSE NodesOfQuery(q.next_query) } )

\* The nodes a successful analysis has produced.
NodesAnalyzed ==
  IF ex.op # "analyze" \/ ex.result.err # NoError THEN {}
  ELSE IF ex.node.kind = "QueryExpr" THEN NodesOfQuery(ex.result.q)
  ELSE NodesOf(ex.result.expr)

\* C18: a node of a successfully analyzed expression has the type NULLT only
\* if it is the constant of a NULL literal; a unary operator or an aggregate
\* over a NULL literal is not typed NULLT.
C18_NoNullTypedNode ==
  \A n \in NodesAnalyzed : n.type.type = "NULLT" => (n.node = "Constant" /\ n.is_null)

RECURSIVE CountAggs(_)
\* The number of AggExpr nodes of an analyzed expression.
CountAggs(e) ==
  CASE e.node = "UOper" -> CountAggs(e.operand)
    [] e.node = "BinOper" -> CountAggs(e.left) + CountAggs(e.right)
    [] e.node = "AggExpr" -> 1 + CountAggs(e.arg)
    [] OTHER -> 0

RECURSIVE CountAggsIn(_)
CountAggsIn(exprs) == IF exprs = <<>> THEN 0 ELSE CountAggs(Head(exprs)) + CountAggsIn(Tail(exprs))

\* The AggExpr nodes of a query's own clauses.
AggsOfQuery(q) ==
  CountAggsIn([i \in 1..Len(q.targetlist) |-> q.targetlist[i].expr])
    + CountAggs(q.where_predicate) + CountAggsIn(q.group_by.list)
    + CountAggs(q.having_predicate)

RECURSIVE AggsCounted(_)
\* num_aggs of a query and of each query chained to it by UNION is the number
\* of AggExpr nodes of that query's own clauses.
AggsCounted(q) ==
  /\ q.num_aggs = AggsOfQuery(q)
  /\ q.next_query # NullQuery => AggsCounted(q.next_query)

\* C19: after a successful analysis into a fresh query, num_aggs is the number
\* of AggExpr nodes analyzed into that query's SELECT, WHERE, GROUP BY and
\* HAVING, nested ones included, and the right side of a UNION is counted in
\* its own query; a function call with an unrecognized name fails and leaves
\* num_aggs as it was.
C19_NumAggsCounts ==
  ex.op = "analyze" =>
    /\ (ex.node.kind = "QueryExpr" /\ ex.result.err = NoError) => AggsCounted(ex.result.q)
    /\ (ex.node.kind = "FunctionRef"
          /\ ToLower(ex.node.name) \notin {"count", "min", "max", "avg", "sum"}) =>
         (ex.result.err = ErrInvalidFunction /\ ex.result.num_aggs = ex.before.num_aggs)

\* A UNION has been analyzed whose left side holds a nested aggregate and an
\* aggregate in HAVING, and whose right side holds one aggregate.
C19_Witness ==
  /\ ex.op = "analyze" /\ ex.node.kind = "QueryExpr" /\ ex.result.err = NoError
  /\ ex.result.q.next_query # NullQuery
  /\ ex.result.q.num_aggs = 3
  /\ ex.result.q.next_query.num_aggs = 1

(***************************************************************************)
(* Statements of both kinds in one session: table and view statements on   *)
(* the catalog and user and database statements on the system catalog, at  *)
(* most MaxSession of them in all.  The session starts in the system       *)
(* database, or in db1 after CREATE USER u1 (password = 'pw'), and before  *)
(* or after CREATE MATERIALIZED VIEW w AS SELECT a FROM r.                 *)
(***************************************************************************)
MaxSession == 1

CatalogWithMatview ==
  createTable(InitCatalog,
              TableDescriptor("w", TRUE, TRUE,
                              SelectFrom("r", <<SelectEntry(ColumnRef(NoName, "a"), NoName)>>),
                              "kDISK", "kMANUAL", FALSE),
              <<ColumnDescriptor("a", TI("INT", 0, 0, FALSE), "kENCODING_NONE", 0)>>)

SysCatalogWithUser(db) ==
  [SysCatalogIn(db) EXCEPT !.users = @ \cup {UserMetadata(1, "u1", "pw", FALSE)}]

InitExecute ==
  /\ pc = "idle"
  /\ stmt = NewStmt
  /\ query = NewQuery
  /\ checked = {}
  /\ log = <<>>
  /\ err = NoError
  /\ catalog \in {InitCatalog, CatalogWithMatview}
  /\ syscat \in {SysCatalogIn(MAPD_SYSTEM_DB), SysCatalogWithUser("db1")}
  /\ ddl = NoDDL
  /\ ex = NoEx

MayExecute == ddl.executed + syscat.executed < MaxSession

ExecuteCreateTableStmt == MayExecute /\ CreateTableStmtExecute

ExecuteDropTableStmt == MayExecute /\ DropTableStmtExecute

ExecuteCreateViewStmt == MayExecute /\ CreateViewStmtExecute

ExecuteDropViewStmt == MayExecute /\ DropViewStmtExecute

ExecuteRefreshViewStmt == MayExecute /\ RefreshViewStmtExecute

ExecuteCreateDBStmt == MayExecute /\ CreateDBStmtExecute

ExecuteDropDBStmt == MayExecute /\ DropDBStmtExecute

ExecuteCreateUserStmt == MayExecute /\ CreateUserStmtExecute

ExecuteAlterUserStmt == MayExecute /\ AlterUserStmtExecute

ExecuteDropUserStmt == MayExecute /\ DropUserStmtExecute

NextExecute ==
  \/ ExecuteCreateTableStmt
  \/ ExecuteDropTableStmt
  \/ ExecuteCreateViewStmt
  \/ ExecuteDropViewStmt
  \/ ExecuteRefreshViewStmt
  \/ ExecuteCreateDBStmt
  \/ ExecuteDropDBStmt
  \/ ExecuteCreateUserStmt
  \/ ExecuteAlterUserStmt
  \/ ExecuteDropUserStmt

SpecExecute == InitExecute /\ [][NextExecute]_vars

\* The errors the execute methods of the user and database statements throw
\* themselves, and those the parser and the planner throw under REFRESH.
OwnErrors ==
  {ErrCreateDBNotSys, ErrDropDBNotSys, ErrCreateUserNotSys, ErrDropUserNotSys,
   ErrOwnerLiteral, ErrNoUser, ErrCreateDBOption, ErrPasswordLiteral, ErrIsSuperLiteral,
   ErrIsSuperValue, ErrUserOption, ErrNoPassword}

ForeignErrors == {ErrSyntax, ErrPlan}

\* The step is the execute of a table or view statement, or of a user or
\* database statement, that threw an error of its own.
ThrewItsOwn ==
  \/ ddl' # ddl /\ ddl'.err \notin {NoError} \cup ForeignErrors
  \/ syscat' # syscat /\ syscat'.err \in OwnErrors

\* C21: an execute makes at most one mutating call on the catalog or the
\* system catalog, and one that throws an error of its own has made none and
\* leaves the catalog and the system catalog as they were.
C21_MutationIsLastStep ==
  [][ /\ ddl' # ddl => Len(ddl'.calls) <= 1
      /\ Len(syscat'.calls) <= Len(syscat.calls) + 1
      /\ ThrewItsOwn =>
           /\ catalog' = catalog
           /\ ddl' # ddl => ddl'.calls = <<>>
           /\ syscat'.calls = syscat.calls
           /\ syscat'.users = syscat.users
           /\ syscat'.dbs = syscat.dbs ]_vars

\* A CREATE VIEW has failed on a target without a name, after its name and
\* its query were accepted; the catalog holds what it held and the system
\* catalog has seen no call.
C21_Witness ==
  /\ ddl.class = "CreateViewStmt" /\ ddl.err = ErrNoColumnName
  /\ catalog = ddl.before
  /\ syscat.calls = <<>>

\* The objects of a catalog that bear the name n.
ObjectsNamed(cat, n) == { td \in cat : td.tableName = n }

\* C22: after any sequence of CREATE TABLE, CREATE VIEW, DROP TABLE and DROP
\* VIEW the catalog holds at most one object of each name, and createTable
\* has been called only for a name the catalog did not hold.
C22_OneObjectPerName ==
  /\ \A td \in catalog : ObjectsNamed(catalog, td.tableName) = {td}
  /\ \A k \in 1..Len(ddl.calls) :
       ddl.calls[k].fn = "createTable" =>
         ObjectsNamed(ddl.before, ddl.calls[k].td.tableName) = {}

\* The view v has been dropped and a table v created: the name v, a view's
\* at the start, is now the name of one object, a table.
C22_Witness ==
  /\ ddl.executed = 2
  /\ ddl.class = "CreateTableStmt" /\ ddl.stmt.table = "v"
  /\ Len(ddl.calls) = 1
  /\ Cardinality(ObjectsNamed(catalog, "v")) = 1
  /\ ~Named(catalog, "v").isView

====
